---- MODULE Spec2Model ----
(***************************************************************************)
(* Model of the status bot's context retention and status synthesis code:  *)
(*   src/src/llm/context.js      relevance decay, context filter, personal *)
(*                               state tracker, completion + validation    *)
(*   src/src/storage/activity.js status history / latest pointer in KV     *)
(*   src/src/storage/profile.js  processStatusUpdate, the pipeline         *)
(*                                                                         *)
(* Conventions                                                             *)
(*   - JavaScript null/undefined is the record Null.                       *)
(*   - Wall-clock time is counted in whole hours.                          *)
(*   - A relevance score s in [0,1] is the integer s * Scale; Scale is a   *)
(*     multiple of every decay span, so every score is exact.              *)
(*   - A JavaScript object is a record; {...o, k: v} is Put(o, k, v).      *)
(***************************************************************************)
EXTENDS Integers, Sequences, FiniteSets, TLC

VARIABLES
    ctxPrev,        \* relevance: the previous StoredStatusEntry
    clock,          \* wall clock (hours)
    ctxThreshold,   \* relevance: llm.relevanceThreshold of the configuration
    ctxScored,      \* relevance: result of calculateContextRelevance
    ctxFiltered,    \* relevance: result of filterRelevantContext
    psPrev,         \* state tracker: the previous StoredStatusEntry, or Null
    psNew,          \* state tracker: newStatusData as returned by processWithLLM
    psOut,          \* state tracker: newStatusData after step 4b
    vrText,         \* validation: the raw completion text
    vrResult,       \* validation: what validateAndRepairStatusJSON returned
    cfg,            \* pipeline: the configuration
    kvHistory,      \* KV: value under user:<id>:status_history
    kvLatest,       \* KV: value under user:<id>:latest_status
    kvProfile,      \* KV: value under profile:<id>
    kvActivities,   \* KV: the values under activity:<id>, in creation order
    channel,        \* the messages posted to the status channel
    req,            \* pipeline: each worker's position and locals
    audit,          \* history of the run, for stating properties
    pgStore,        \* purge: the KV namespace, as the set of its entries
    pgPrev,         \* purge: the /status purge command handled before pgLast
    pgLast,         \* purge: the /status purge command handled last
    cpLast,         \* components: the component interaction handled last
    cpEffects,      \* components: DMs sent, interactions logged, activities joined
    prLast,         \* profile: the profile call made last
    pgFlight,       \* purge: the position of each user's status update in flight
    pgDone,         \* purge: the users purged who have issued no request since
    acStore,        \* activities: the stored activity, by activity id
    acReq,          \* activities: each joinActivity call's position and locals
    acJoined,       \* activities: the joins that have returned the activity
    ixState,        \* interactions: the component interaction being answered
    tplStore,       \* templates: value under user:<id>:templates
    tplLast         \* templates: the template call made last

relVars == <<ctxPrev, ctxThreshold, ctxScored, ctxFiltered>>

psVars == <<psPrev, psNew, psOut>>

vrVars == <<vrText, vrResult>>

upVars == <<cfg, kvHistory, kvLatest, kvProfile, kvActivities, channel, req, audit>>

prVars == <<prLast>>

afVars == <<pgFlight, pgDone>>

acVars == <<acStore, acReq, acJoined>>

ixVars == <<ixState>>

tpVars == <<tplStore, tplLast>>

opVars == <<prVars, afVars, acVars, ixVars, tpVars>>

exVars == <<pgStore, pgPrev, pgLast, cpLast, cpEffects, opVars>>

vars == <<clock, relVars, psVars, vrVars, upVars, exVars>>

Pending == [pending |-> TRUE]

RelIdle == ctxPrev = Pending /\ ctxThreshold = Pending /\ ctxScored = Pending
           /\ ctxFiltered = Pending

PsIdle == psPrev = Pending /\ psNew = Pending /\ psOut = Pending

VrIdle == vrText = Pending /\ vrResult = Pending

UpIdle == /\ cfg = Pending /\ kvHistory = Pending /\ kvLatest = Pending
          /\ kvProfile = Pending /\ kvActivities = Pending /\ channel = Pending
          /\ req = Pending /\ audit = Pending

PrIdle == prLast = Pending

AfIdle == pgFlight = Pending /\ pgDone = Pending

AcIdle == acStore = Pending /\ acReq = Pending /\ acJoined = Pending

IxIdle == ixState = Pending

TpIdle == tplStore = Pending /\ tplLast = Pending

OpIdle == PrIdle /\ AfIdle /\ AcIdle /\ IxIdle /\ TpIdle

ExIdle == /\ pgStore = Pending /\ pgPrev = Pending /\ pgLast = Pending
          /\ cpLast = Pending /\ cpEffects = Pending
          /\ OpIdle

-----------------------------------------------------------------------------
(* Bounds of the model *)

MaxItems == 2
MaxHours == 24

-----------------------------------------------------------------------------
(* JavaScript values *)

Null == [isNull |-> TRUE]

Max(a, b) == IF a >= b THEN a ELSE b

Abs(a) == IF a >= 0 THEN a ELSE 0 - a

Put(o, k, v) == [f \in (DOMAIN o) \cup {k} |-> IF f = k THEN v ELSE o[f]]

Has(o, k) == k \in DOMAIN o

SeqsUpTo(S, n) == UNION {[1..k -> S] : k \in 0..n}

-----------------------------------------------------------------------------
(* Relevance model: calculateContextRelevance *)

Scale == 144 * 10

\* a || b on numbers: 0 (and NaN) is falsy
OrElse(a, b) == IF a # 0 THEN a ELSE b

Decay(hoursDifference, span) ==
    Max(0, Scale - (hoursDifference * Scale) \div span)

relevanceFactors(hoursDifference) ==
    [physical    |-> Decay(hoursDifference, 6),
     emotional   |-> Decay(hoursDifference, 12),
     activity    |-> Decay(hoursDifference, 36),
     event       |-> Decay(hoursDifference, 24),
     state       |-> Decay(hoursDifference, 12),
     need        |-> Decay(hoursDifference, 8),
     achievement |-> Decay(hoursDifference, 48),
     default     |-> Decay(hoursDifference, 18)]

\* relevanceFactors[type] || relevanceFactors.default
FactorOrDefault(factors, type) ==
    IF type \in DOMAIN factors THEN OrElse(factors[type], factors["default"])
    ELSE factors["default"]

\* the keywords of the categorisation that occur in metric.name?.toLowerCase() || ''
NameTerms(metric) ==
    IF ~Has(metric, "name") THEN {}
    ELSE CASE metric.name = "Energy"     -> {"energy"}
           [] metric.name = "Mood"       -> {"mood"}
           [] metric.name = "Networking" -> {"work"}
           [] metric.name = "Sleep mood" -> {"sleep", "mood"}
           [] OTHER                      -> {}

MetricType(metric) ==
    LET terms == NameTerms(metric) IN
    IF terms \cap {"energy", "hunger", "sleep", "tired", "physical"} # {} THEN "physical"
    ELSE IF terms \cap {"focus", "mood", "stress", "feeling"} # {} THEN "emotional"
    ELSE IF terms \cap {"project", "work", "task", "progress", "coding", "writing"} # {}
         THEN "activity"
    ELSE "default"

\* highlight.type?.toLowerCase() || 'default'
HighlightType(highlight) ==
    IF ~Has(highlight, "type") THEN "default"
    ELSE CASE highlight.type = "Activity" -> "activity"
           [] highlight.type = ""         -> "default"
           [] OTHER                       -> highlight.type

ScoreMetric(metric, factors) ==
    Put(metric, "relevance_score", FactorOrDefault(factors, MetricType(metric)))

ScoreHighlight(highlight, factors) ==
    Put(highlight, "relevance_score", FactorOrDefault(factors, HighlightType(highlight)))

ScoreContext(context, factors) ==
    Put(context, "relevance_score", factors["activity"])

\* processed_status.<field> || []  (an array field is a sequence or absent)
ArrayOrEmpty(o, field) == IF Has(o, field) THEN o[field] ELSE <<>>

\* mutant of HoursBetween: the signed difference
HoursBetweenSigned(currentTime, previousTime) == currentTime - previousTime

\* Math.abs(currentTime - previousTime) / (1000 * 60 * 60)
HoursBetween(currentTime, previousTime) == Abs(currentTime - previousTime)

\* A timestamp is [kind |-> "iso", t |-> hours], [kind |-> "garbage"] (a string
\* Date cannot parse) or absent.
calculateContextRelevance(previousStatus, currentTime) ==
    IF previousStatus = Null
       \/ ~Has(previousStatus, "timestamp")
       \/ ~Has(previousStatus, "processed_status")
    THEN Null
    ELSE IF previousStatus.timestamp.kind # "iso" THEN previousStatus
    ELSE
      LET hoursDifference == HoursBetween(currentTime, previousStatus.timestamp.t)
          factors == relevanceFactors(hoursDifference)
          ps == previousStatus.processed_status
          metricsWithRelevance ==
              [i \in DOMAIN ArrayOrEmpty(ps, "metrics") |->
                  ScoreMetric(ps.metrics[i], factors)]
          highlightsWithRelevance ==
              [i \in DOMAIN ArrayOrEmpty(ps, "highlights") |->
                  ScoreHighlight(ps.highlights[i], factors)]
          persistentContextWithRelevance ==
              [i \in DOMAIN ArrayOrEmpty(ps, "persistent_context") |->
                  ScoreContext(ps.persistent_context[i], factors)]
          LET3 == Put(Put(Put(ps, "metrics", metricsWithRelevance),
                          "highlights", highlightsWithRelevance),
                      "persistent_context", persistentContextWithRelevance)
      IN  Put(previousStatus, "processed_status", LET3)

-----------------------------------------------------------------------------
(* Context filter: filterRelevantContext *)

DefaultThreshold == (3 * Scale) \div 10

\* A threshold is [num |-> TRUE, v |-> t * Scale] or [num |-> FALSE] (not a number).
\* mutant of EffectiveThreshold: a number outside [0,1] is clamped to the
\* nearer end of the interval
EffectiveThresholdClamped(threshold) ==
    IF ~threshold.num THEN DefaultThreshold
    ELSE IF threshold.v < 0 THEN 0
    ELSE IF threshold.v > Scale THEN Scale
    ELSE threshold.v

EffectiveThreshold(threshold) ==
    IF ~threshold.num \/ threshold.v < 0 \/ threshold.v > Scale
    THEN DefaultThreshold
    ELSE threshold.v

\* mutant of KeepItem: > instead of >=
KeepItemStrict(x, t) == Has(x, "relevance_score") /\ x.relevance_score > t

\* typeof x.relevance_score === 'number' && x.relevance_score >= threshold
KeepItem(x, t) == Has(x, "relevance_score") /\ x.relevance_score >= t

\* Array.prototype.filter with the predicate above
RECURSIVE FilterByScore(_, _)
FilterByScore(arr, t) ==
    IF arr = <<>> THEN <<>>
    ELSE IF KeepItem(Head(arr), t) THEN <<Head(arr)>> \o FilterByScore(Tail(arr), t)
         ELSE FilterByScore(Tail(arr), t)

filterRelevantContext(contextWithRelevance, threshold) ==
    IF contextWithRelevance = Null \/ ~Has(contextWithRelevance, "processed_status")
    THEN Null
    ELSE
      LET t == EffectiveThreshold(threshold)
          ps == contextWithRelevance.processed_status
          F1 == Put(ps, "metrics",
                    FilterByScore(ArrayOrEmpty(ps, "metrics"), t))
          F2 == Put(F1, "highlights",
                    FilterByScore(ArrayOrEmpty(ps, "highlights"), t))
          F3 == Put(F2, "persistent_context",
                    FilterByScore(ArrayOrEmpty(ps, "persistent_context"), t))
      IN  Put(contextWithRelevance, "processed_status", F3)

-----------------------------------------------------------------------------
(* Specification of the relevance model: a previous entry is scored and      *)
(* filtered (processStatusUpdate, step 3) as wall-clock time passes.         *)

MetricNames == {"Energy", "Mood", "Networking", "Weather"}
HighlightTypes == {"activity", "need", "blocker"}

Metrics == {[name |-> n, value |-> "Low"] : n \in MetricNames}
Highlights == {[type |-> t, description |-> "Need coffee"] : t \in HighlightTypes}
ContextItems == {[description |-> "Recovering from cold"]}

PrevSnapshots ==
    {[metrics |-> ms, highlights |-> hs, persistent_context |-> cs] :
        ms \in SeqsUpTo(Metrics, MaxItems),
        hs \in SeqsUpTo(Highlights, 1),
        cs \in SeqsUpTo(ContextItems, 1)}

PrevTimestamps == {[kind |-> "iso", t |-> 0], [kind |-> "iso", t |-> 2],
                   [kind |-> "garbage"]}

Thresholds == {[num |-> TRUE, v |-> 1], [num |-> TRUE, v |-> DefaultThreshold]}

RelInit ==
    /\ ctxPrev \in {[timestamp |-> ts, raw_input |-> "text", processed_status |-> s] :
                        ts \in PrevTimestamps, s \in PrevSnapshots}
    /\ clock = 0
    /\ ctxThreshold \in Thresholds
    /\ ctxScored = Null
    /\ ctxFiltered = Null
    /\ ExIdle
    /\ PsIdle
    /\ VrIdle
    /\ UpIdle

\* processStatusUpdate step 3, run d hours after the last run
ScoreAndFilter(d) ==
    /\ clock + d <= MaxHours
    /\ clock' = clock + d
    /\ ctxScored' = calculateContextRelevance(ctxPrev, clock')
    /\ ctxFiltered' = filterRelevantContext(ctxScored', ctxThreshold)
    /\ UNCHANGED <<exVars, ctxPrev, ctxThreshold, psVars, vrVars, upVars>>

RelNext == \E d \in {0, 1} : ScoreAndFilter(d)

SpecRelevance == RelInit /\ [][RelNext]_vars

\* hours between the scoring run and the previous entry's timestamp
Elapsed == Abs(clock - ctxPrev.timestamp.t)

Scored == ctxScored # Null /\ ctxPrev.timestamp.kind = "iso"

ScoredArrays == {"metrics", "highlights", "persistent_context"}

\* the decay span the specification gives each category (spec 4.1)
HalfLife(category) ==
    CASE category = "physical"    -> 6
      [] category = "emotional"   -> 12
      [] category = "state"       -> 12
      [] category = "event"       -> 24
      [] category = "activity"    -> 36
      [] category = "need"        -> 8
      [] category = "achievement" -> 48
      [] OTHER                    -> 18

\* C4: the relevance_score of every metric, highlight and persistent_context
\* item is 1 at zero elapsed hours and never rises when the elapsed hours grow.
C4_DecayMonotone ==
    /\ [](Scored /\ Elapsed = 0 =>
            \A f \in ScoredArrays :
              \A i \in DOMAIN ctxScored.processed_status[f] :
                ctxScored.processed_status[f][i].relevance_score = Scale)
    /\ [][(Scored /\ Elapsed' >= Elapsed) =>
            \A f \in ScoredArrays :
              \A i \in DOMAIN ctxScored.processed_status[f] :
                ctxScored'.processed_status[f][i].relevance_score
                  <= ctxScored.processed_status[f][i].relevance_score]_vars

\* C5: a metric or highlight whose category span has fully elapsed is scored 0
\* and is dropped by every threshold > 0; "Energy" after 8 hours is dropped at
\* threshold 0.3 while an "activity" highlight of the same snapshot is kept.
C5_ExpiredDropped ==
    Scored =>
      /\ \A i \in DOMAIN ctxScored.processed_status.metrics :
           LET m == ctxScored.processed_status.metrics[i] IN
           Elapsed >= HalfLife(MetricType(m)) =>
             /\ m.relevance_score = 0
             /\ EffectiveThreshold(ctxThreshold) > 0 =>
                  \A j \in DOMAIN ctxFiltered.processed_status.metrics :
                    ctxFiltered.processed_status.metrics[j] # m
      /\ \A i \in DOMAIN ctxScored.processed_status.highlights :
           LET h == ctxScored.processed_status.highlights[i] IN
           Elapsed >= HalfLife(HighlightType(h)) =>
             /\ h.relevance_score = 0
             /\ EffectiveThreshold(ctxThreshold) > 0 =>
                  \A j \in DOMAIN ctxFiltered.processed_status.highlights :
                    ctxFiltered.processed_status.highlights[j] # h
      /\ (Elapsed = 8 /\ ctxThreshold.v = DefaultThreshold) =>
           /\ \A j \in DOMAIN ctxFiltered.processed_status.metrics :
                ctxFiltered.processed_status.metrics[j].name # "Energy"
           /\ \A i \in DOMAIN ctxScored.processed_status.highlights :
                ctxScored.processed_status.highlights[i].type = "activity" =>
                  \E j \in DOMAIN ctxFiltered.processed_status.highlights :
                    ctxFiltered.processed_status.highlights[j]
                      = ctxScored.processed_status.highlights[i]

-----------------------------------------------------------------------------
(* Specification of the context filter alone: filterRelevantContext applied *)
(* to a context whose items carry any score or none.                        *)

ScoreValues == {DefaultThreshold - 1, DefaultThreshold, Scale}

WithScores(items) ==
    items \cup {Put(x, "relevance_score", s) : x \in items, s \in ScoreValues}

FilterMetrics == WithScores({[name |-> n, value |-> "Low"] : n \in {"Energy", "Mood"}})
FilterHighlights ==
    {[type |-> "activity", description |-> "Need coffee"],
     [type |-> "activity", description |-> "Need coffee",
      relevance_score |-> DefaultThreshold]}
FilterContextItems ==
    {[description |-> "Recovering from cold"],
     [description |-> "Recovering from cold", relevance_score |-> DefaultThreshold - 1]}

FilterThresholds ==
    {[num |-> TRUE, v |-> 0], [num |-> TRUE, v |-> DefaultThreshold],
     [num |-> TRUE, v |-> Scale], [num |-> TRUE, v |-> Scale + 1],
     [num |-> TRUE, v |-> 0 - 1], [num |-> FALSE, v |-> 0]}

FilterInit ==
    /\ ctxPrev = Null
    /\ clock = 0
    /\ ctxThreshold \in FilterThresholds
    /\ ctxScored \in
         {Null} \cup
         {[timestamp |-> [kind |-> "iso", t |-> 0], raw_input |-> "text",
           processed_status |->
              [metrics |-> ms, highlights |-> hs, persistent_context |-> cs]] :
            ms \in SeqsUpTo(FilterMetrics, MaxItems),
            hs \in SeqsUpTo(FilterHighlights, 1),
            cs \in SeqsUpTo(FilterContextItems, 1)}
    /\ ctxFiltered = Pending
    /\ ExIdle
    /\ PsIdle
    /\ VrIdle
    /\ UpIdle

FilterOnly ==
    /\ ctxFiltered = Pending
    /\ ctxFiltered' = filterRelevantContext(ctxScored, ctxThreshold)
    /\ UNCHANGED <<exVars, ctxPrev, clock, ctxThreshold, ctxScored, psVars, vrVars, upVars>>

FilterNext == FilterOnly

SpecFilter == FilterInit /\ [][FilterNext]_vars

FilterDone == ctxFiltered # Pending /\ ctxFiltered # Null

ValidThreshold == ctxThreshold.num /\ ctxThreshold.v >= 0 /\ ctxThreshold.v <= Scale

\* the positions of arr whose element has a numeric relevance_score >= t
KeptPositions(arr, t) ==
    {i \in DOMAIN arr : "relevance_score" \in DOMAIN arr[i] /\ arr[i].relevance_score >= t}

\* out is arr restricted to the positions in kept, in the order of arr
IsRestriction(out, arr, kept) ==
    /\ Len(out) = Cardinality(kept)
    /\ \A i \in kept : out[Cardinality({k \in kept : k <= i})] = arr[i]

-----------------------------------------------------------------------------
(* State tracker: updatePersonalStateTimes and its helpers                  *)
(*                                                                          *)
(* A level is [numeric |-> TRUE, tenths |-> n] (the number n/10) or         *)
(* [numeric |-> FALSE] (a value parseInt cannot read, e.g. "high").         *)
(* A time string is a record: [text |-> "4h ago"], [n |-> 5, unit |-> "h"]  *)
(* for "5h", [left |-> a, right |-> b] for `${a} + ${b}`.                   *)

NaN == [nan |-> TRUE]

\* parseInt(level, 10): the integer part, or NaN
parseInt(state) ==
    IF Has(state, "level") /\ state.level.numeric
    THEN [nan |-> FALSE, v |-> state.level.tenths \div 10]
    ELSE NaN

\* Math.round of the quotient a / b, for a >= 0
RoundDiv(a, b) == (2 * a + b) \div (2 * b)

getTimeSinceUpdate(previousTimestampISO, now) ==
    IF previousTimestampISO.kind # "iso" THEN [text |-> "NaNd"]
    ELSE LET diffMinutes == 60 * (now - previousTimestampISO.t)
             diffHours == RoundDiv(diffMinutes, 60)
         IN  IF diffMinutes < 1 THEN [text |-> "now"]
             ELSE IF diffMinutes < 60 THEN [n |-> diffMinutes, unit |-> "m"]
             ELSE IF diffHours < 24 THEN [n |-> diffHours, unit |-> "h"]
             ELSE [n |-> RoundDiv(diffHours, 24), unit |-> "d"]

updateTimeElapsed(prevTimeStr, additionalTimeStr) ==
    IF prevTimeStr # [text |-> "just now"]
    THEN [left |-> prevTimeStr, right |-> additionalTimeStr]
    ELSE prevTimeStr

\* !state || !state.name
InvalidState(state) == state = Null \/ ~Has(state, "name") \/ state.name = ""

\* prevStateMap.get(name): the last valid previous state set under that name
PrevStateGet(previousStates, name) ==
    LET at == {i \in DOMAIN previousStates :
                  ~InvalidState(previousStates[i]) /\ previousStates[i].name = name}
    IN  IF at = {} THEN Null
        ELSE previousStates[CHOOSE i \in at : \A j \in at : j <= i]

\* mutant of TrendOf: the comparisons swapped
TrendOfSwapped(prevLevel, currentLevel) ==
    IF ~currentLevel.nan /\ ~prevLevel.nan
    THEN IF currentLevel.v < prevLevel.v THEN "increasing"
         ELSE IF currentLevel.v > prevLevel.v THEN "decreasing"
         ELSE "stable"
    ELSE "stable"

TrendOf(prevLevel, currentLevel) ==
    IF ~currentLevel.nan /\ ~prevLevel.nan
    THEN IF currentLevel.v > prevLevel.v THEN "increasing"
         ELSE IF currentLevel.v < prevLevel.v THEN "decreasing"
         ELSE "stable"
    ELSE "stable"

EmptyText == [text |-> ""]

\* mutant of OmitsTime: the time the completion supplied is not looked at
OmitsTimeAlways(state) == TRUE

\* !state.time_since_last: the field is missing or the empty string
OmitsTime(state) ==
    ~Has(state, "time_since_last") \/ state.time_since_last = EmptyText

\* mutant of UpdateState: a state without a previous occurrence keeps the
\* trend the completion supplied
UpdateStateKeepTrend(currentState, previousStates, timeSinceUpdateStr) ==
    IF InvalidState(currentState) THEN currentState
    ELSE
      LET prevState == PrevStateGet(previousStates, currentState.name) IN
      IF prevState = Null THEN currentState
      ELSE Put(currentState, "trend",
               TrendOf(parseInt(prevState), parseInt(currentState)))

\* the callback of currentStates.map
UpdateState(currentState, previousStates, timeSinceUpdateStr) ==
    IF InvalidState(currentState) THEN currentState
    ELSE
      LET prevState == PrevStateGet(previousStates, currentState.name) IN
      IF prevState = Null THEN Put(currentState, "trend", "new")
      ELSE
        LET updatedState ==
              Put(currentState, "trend",
                  TrendOf(parseInt(prevState), parseInt(currentState)))
        IN  IF OmitsTime(updatedState)
               /\ Has(prevState, "time_since_last")
               /\ prevState.time_since_last # EmptyText
               /\ timeSinceUpdateStr # Null
            THEN Put(updatedState, "time_since_last",
                     updateTimeElapsed(prevState.time_since_last, timeSinceUpdateStr))
            ELSE updatedState

\* mutant of updatePersonalStateTimes: the previous states that have no
\* current counterpart are carried forward
updatePersonalStateTimesCarry(previousStates, currentStates, previousTimestampISO, now) ==
    LET prev == previousStates
        cur == currentStates
        timeSinceUpdateStr ==
            IF previousTimestampISO # Null
            THEN getTimeSinceUpdate(previousTimestampISO, now)
            ELSE Null
        kept == SelectSeq(prev, LAMBDA p :
                    \A i \in DOMAIN cur : ~Has(cur[i], "name") \/ cur[i].name # p.name)
    IN  [i \in DOMAIN cur |-> UpdateState(cur[i], prev, timeSinceUpdateStr)] \o kept

updatePersonalStateTimes(previousStates, currentStates, previousTimestampISO, now) ==
    LET prev == previousStates
        cur == currentStates
        timeSinceUpdateStr ==
            IF previousTimestampISO # Null
            THEN getTimeSinceUpdate(previousTimestampISO, now)
            ELSE Null
    IN  [i \in DOMAIN cur |-> UpdateState(cur[i], prev, timeSinceUpdateStr)]

\* processStatusUpdate step 4b. The result is the updated newStatusData, or
\* Thrown when the forEach meets an element that is null.
Thrown == [threw |-> TRUE]

ReconcilePersonalStates(previousStatus, newStatusData, now) ==
    IF previousStatus # Null /\ Has(previousStatus, "processed_status")
    THEN Put(newStatusData, "personal_states",
             updatePersonalStateTimes(
                 ArrayOrEmpty(previousStatus.processed_status, "personal_states"),
                 ArrayOrEmpty(newStatusData, "personal_states"),
                 IF Has(previousStatus, "timestamp") THEN previousStatus.timestamp
                 ELSE Null,
                 now))
    ELSE IF Has(newStatusData, "personal_states")
         THEN IF \E i \in DOMAIN newStatusData.personal_states :
                    newStatusData.personal_states[i] = Null
              THEN Thrown
              ELSE Put(newStatusData, "personal_states",
                       [i \in DOMAIN newStatusData.personal_states |->
                           Put(newStatusData.personal_states[i], "trend", "new")])
         ELSE newStatusData

-----------------------------------------------------------------------------
(* Specification of the state tracker: step 4b of processStatusUpdate on a  *)
(* completion result and the previous entry (or none).                      *)

MaxStates == 3

StateNames == {"Hunger", "hunger", ""}

Levels == {[numeric |-> TRUE, tenths |-> 20], [numeric |-> TRUE, tenths |-> 25],
           [numeric |-> TRUE, tenths |-> 30], [numeric |-> FALSE, tenths |-> 0]}

SuppliedTrends == {"decreasing", "new"}

PrevStates ==
    {[name |-> n, level |-> l, time_since_last |-> [text |-> "4h ago"]] :
        n \in StateNames, l \in Levels}

CurStates(trend) ==
    {[name |-> n, level |-> l, trend |-> trend] : n \in StateNames, l \in Levels}

TrackerInit ==
    /\ clock = 5
    /\ ExIdle
    /\ RelIdle
    /\ \E np \in 0..MaxStates, trend \in SuppliedTrends :
         /\ psPrev \in
              {Null} \cup
              {[timestamp |-> [kind |-> "iso", t |-> 0], raw_input |-> "text",
                processed_status |-> [overall_status |-> "ok", personal_states |-> ps]] :
                 ps \in [1..np -> PrevStates]}
         /\ psNew \in
              {[overall_status |-> "ok", personal_states |-> cs] :
                 cs \in SeqsUpTo(CurStates(trend), MaxStates - np)}
    /\ psOut = Pending
    /\ VrIdle
    /\ UpIdle

TrackStep ==
    /\ psOut = Pending
    /\ psOut' = ReconcilePersonalStates(psPrev, psNew, clock)
    /\ UNCHANGED <<exVars, clock, relVars, psPrev, psNew, vrVars, upVars>>

TrackerNext == TrackStep

SpecTracker == TrackerInit /\ [][TrackerNext]_vars

Tracked == psOut # Pending /\ psOut # Thrown

PrevPersonalStates ==
    IF psPrev = Null THEN <<>> ELSE psPrev.processed_status.personal_states

\* the level as a number, for a numeric level
LevelValue(state) == state.level.tenths

NoSameNamed(state) ==
    \A j \in DOMAIN PrevPersonalStates : PrevPersonalStates[j].name # state.name

-----------------------------------------------------------------------------
(* Validation / repair: validateAndRepairStatusJSON, createDefaultStatus    *)
(*                                                                          *)
(* A completion text is a sequence of tokens:                               *)
(*   "W"    whitespace              "P"    a word of prose                  *)
(*   "FO"   the fence ```json       "FC"   the fence ```                    *)
(*   "LB"   {                       "RB"   }                                *)
(*   "FULL" the members of a complete status object                         *)
(*   "PART" the member "overall_status" alone                               *)
(*   "NUM"  a JSON number                                                   *)
(* A string of the code is a sequence of string pieces.                     *)

Tokens == {"W", "P", "FO", "FC", "LB", "RB", "FULL", "PART", "NUM"}

RECURSIVE TrimStart(_)
TrimStart(text) ==
    IF text # <<>> /\ Head(text) = "W" THEN TrimStart(Tail(text)) ELSE text

RECURSIVE TrimEnd(_)
TrimEnd(text) ==
    IF text # <<>> /\ text[Len(text)] = "W"
    THEN TrimEnd(SubSeq(text, 1, Len(text) - 1))
    ELSE text

Trim(text) == TrimEnd(TrimStart(text))

\* the text without the whitespace JSON allows between its tokens
RECURSIVE Significant(_)
Significant(text) ==
    IF text = <<>> THEN <<>>
    ELSE IF Head(text) = "W" THEN Significant(Tail(text))
         ELSE <<Head(text)>> \o Significant(Tail(text))

\* JSON.parse: [ok |-> TRUE, value |-> v], or [ok |-> FALSE] for a SyntaxError.
\* payload is the object the members "FULL" spell out.
JSONParse(text, payload) ==
    LET sig == Significant(text) IN
    IF sig = <<"LB", "FULL", "RB">> THEN [ok |-> TRUE, value |-> payload]
    ELSE IF sig = <<"LB", "PART", "RB">>
         THEN [ok |-> TRUE, value |-> [overall_status |-> payload.overall_status]]
    ELSE IF sig = <<"LB", "RB">> THEN [ok |-> TRUE, value |-> [x \in {} |-> 0]]
    ELSE IF sig = <<"NUM">> THEN [ok |-> TRUE, value |-> [jsNumber |-> 42]]
    ELSE [ok |-> FALSE]

\* the start positions at which  ```json\s*([\s\S]*?)\s*```  matches
FenceStarts(text) ==
    {i \in DOMAIN text :
        text[i] = "FO" /\ \E k \in DOMAIN text : k > i /\ text[k] \in {"FC", "FO"}}

\* the start positions at which  (\{[\s\S]*\})  matches
BraceStarts(text) ==
    {i \in DOMAIN text :
        text[i] = "LB" /\ \E k \in DOMAIN text : k > i /\ text[k] = "RB"}

MinOf(S) == CHOOSE i \in S : \A j \in S : i <= j

MaxOf(S) == CHOOSE i \in S : \A j \in S : j <= i

\* jsonString.match(...): [matched |-> FALSE], or the two capture groups,
\* an absent group being Null
RegexMatch(text) ==
    LET starts == FenceStarts(text) \cup BraceStarts(text) IN
    IF starts = {} THEN [matched |-> FALSE]
    ELSE LET i == MinOf(starts) IN
         IF text[i] = "FO"
         THEN LET k == MinOf({j \in DOMAIN text :
                                 j > i /\ text[j] \in {"FC", "FO"}})
              IN  [matched |-> TRUE,
                   g1 |-> [text |-> Trim(SubSeq(text, i + 1, k - 1))],
                   g2 |-> Null]
         ELSE LET k == MaxOf({j \in DOMAIN text : j > i /\ text[j] = "RB"})
              IN  [matched |-> TRUE, g1 |-> Null,
                   g2 |-> [text |-> SubSeq(text, i, k)]]

\* jsonMatch[1] || jsonMatch[2]: an empty or absent group 1 is falsy
ExtractedJson(m) ==
    IF m.g1 # Null /\ m.g1.text # <<>> THEN m.g1
    ELSE m.g2

createDefaultStatus(text, reason) ==
    [overall_status |-> "Analysis Failed",
     mood_emoji |-> "warning",
     visual_theme |-> "default",
     accent_color |-> "#FEE75C",
     metrics |-> <<[name |-> "Processing Status", value |-> "Failed",
                    value_rating |-> 1, trend |-> "new", icon |-> "gear"]>>,
     highlights |-> <<[type |-> "state",
                       description |-> <<"Failed to analyze status update. Reason: ">>
                                         \o reason,
                       timeframe |-> "current", is_new |-> TRUE]>>,
     persistent_context |-> <<>>,
     narrative_summary |-> <<"Analysis failed. ">> \o reason,
     errors |-> << <<"LLM Processing Error: ">> \o reason >>,
     personal_states |-> <<>>]

\* validateAndRepairStatusJSON with the branch it took:
\* [path |-> "direct" | "extracted" | "fallback", value |-> the result].
\* jsonString is [text |-> tokens], or Null for a value that is not a string.
ValidateAndRepair(jsonString, originalText, payload) ==
    IF jsonString = Null \/ Trim(jsonString.text) = <<>>
    THEN [path |-> "fallback",
          value |-> createDefaultStatus(originalText, <<"LLM returned empty response.">>)]
    ELSE
      LET direct == JSONParse(jsonString.text, payload) IN
      IF direct.ok THEN [path |-> "direct", value |-> direct.value]
      ELSE
        LET jsonMatch == RegexMatch(jsonString.text)
            extractedJson == IF jsonMatch.matched THEN ExtractedJson(jsonMatch) ELSE Null
        IN
        IF extractedJson # Null
        THEN LET repaired == JSONParse(extractedJson.text, payload) IN
             IF repaired.ok THEN [path |-> "extracted", value |-> repaired.value]
             ELSE [path |-> "fallback",
                   value |-> createDefaultStatus(originalText,
                                 <<"LLM response was malformed JSON.">>)]
        ELSE [path |-> "fallback",
              value |-> createDefaultStatus(originalText,
                            <<"LLM response did not contain valid JSON.">>)]

validateAndRepairStatusJSON(jsonString, originalText, payload) ==
    ValidateAndRepair(jsonString, originalText, payload).value

-----------------------------------------------------------------------------
(* Specification of validation: validateAndRepairStatusJSON on any text     *)

MaxLen == 4

\* what a completion that follows the schema spells out
SamplePayload ==
    [overall_status |-> "Relaxing after work",
     mood_emoji |-> "smile",
     visual_theme |-> "rest",
     accent_color |-> "blue",
     metrics |-> <<[name |-> "Energy", value |-> "Low"]>>,
     highlights |-> <<>>,
     persistent_context |-> <<>>,
     personal_states |-> <<[name |-> "Hunger",
                            level |-> [numeric |-> TRUE, tenths |-> 30]]>>,
     narrative_summary |-> <<"Relaxing.">>,
     errors |-> <<>>]

ValidateInit ==
    /\ clock = 0
    /\ ExIdle
    /\ RelIdle
    /\ PsIdle
    /\ vrText \in {Null} \cup {[text |-> t] : t \in SeqsUpTo(Tokens, MaxLen)}
    /\ vrResult = Pending
    /\ UpIdle

ValidateStep ==
    /\ vrResult = Pending
    /\ vrResult' = ValidateAndRepair(vrText, <<"feeling tired">>, SamplePayload)
    /\ UNCHANGED <<exVars, clock, relVars, psVars, vrText, upVars>>

ValidateNext == ValidateStep

SpecValidate == ValidateInit /\ [][ValidateNext]_vars

SnapshotArrays == {"metrics", "highlights", "persistent_context", "personal_states"}

SnapshotFields ==
    SnapshotArrays \cup {"overall_status", "mood_emoji", "visual_theme", "accent_color",
                         "narrative_summary", "errors"}

\* C9: for every completion text the result has the full snapshot shape, its
\* four arrays present, and a non-empty errors array when the fallback was
\* taken.
C9_FallbackTotality ==
    vrResult # Pending =>
      /\ SnapshotFields \subseteq DOMAIN vrResult.value
      /\ vrResult.path = "fallback" => vrResult.value.errors # <<>>

-----------------------------------------------------------------------------
(* Completion: the provider callers and processWithLLM                      *)

\* callAnthropicAPI / callOpenAIAPI / callOpenRouterAPI on the provider's
\* response: [ok |-> TRUE, text |-> t], or [ok |-> FALSE, message |-> m] for
\* the Error thrown. response.kind is "network" (fetch rejects), "http"
\* (!response.ok), "nocontent" (a body without a content block) or "json"
\* with the text of the first content block.
callLLMAPI(response) ==
    IF response.kind = "network"
    THEN [ok |-> FALSE, message |-> <<"fetch failed">>]
    ELSE IF response.kind = "http"
    THEN [ok |-> FALSE, message |-> <<"API error: 500">>]
    ELSE IF response.kind = "nocontent" \/ response.text = <<>>
    THEN [ok |-> FALSE, message |-> <<"Unexpected response structure">>]
    ELSE [ok |-> TRUE, text |-> response.text]

Providers == {"anthropic", "openai", "openrouter"}

\* formatUserInput throws on new Date(previousStatus.timestamp).toISOString()
\* when the timestamp of the context does not parse
FormatUserInputThrows(previousStatus) ==
    /\ previousStatus # Null
    /\ Has(previousStatus, "timestamp")
    /\ Has(previousStatus, "processed_status")
    /\ previousStatus.timestamp.kind # "iso"

\* mutant of processWithLLM: the catch block rethrows
processWithLLMRethrow(currentText, service, previousStatus, response, payload) ==
    IF FormatUserInputThrows(previousStatus) THEN Thrown
    ELSE IF service \notin Providers THEN Thrown
    ELSE LET result == callLLMAPI(response) IN
         IF result.ok
         THEN validateAndRepairStatusJSON([text |-> result.text], currentText, payload)
         ELSE Thrown

\* processWithLLM: the snapshot, or Thrown when the prompt cannot be built
processWithLLM(currentText, service, previousStatus, response, payload) ==
    IF FormatUserInputThrows(previousStatus) THEN Thrown
    ELSE IF service \notin Providers
    THEN createDefaultStatus(currentText,
             <<"LLM Error: ", "Unknown LLM service configured">>)
    ELSE LET result == callLLMAPI(response) IN
         IF result.ok
         THEN validateAndRepairStatusJSON([text |-> result.text], currentText, payload)
         ELSE createDefaultStatus(currentText, <<"LLM Error: ">> \o result.message)

\* the completion call failed: unknown provider, or the caller threw
CompletionFails(service, response) ==
    service \notin Providers \/ ~callLLMAPI(response).ok

-----------------------------------------------------------------------------
(* Storage: storeUserStatus, getLatestUserStatus, getUserProfile,           *)
(* createActivity                                                           *)

\* the array read from the history key
HistoryOf(historyData) ==
    IF historyData # Null /\ Has(historyData, "history") THEN historyData.history
    ELSE <<>>

\* mutant of NewStatusEntry: the later the entry, the older its timestamp
NewStatusEntryBackdated(now, rawInput, processedStatus) ==
    [timestamp |-> [kind |-> "iso", t |-> 0 - now],
     raw_input |-> rawInput,
     processed_status |-> processedStatus]

\* the entry storeUserStatus builds
NewStatusEntry(now, rawInput, processedStatus) ==
    [timestamp |-> [kind |-> "iso", t |-> now],
     raw_input |-> rawInput,
     processed_status |-> processedStatus]

\* mutant of PushEntry: unshift instead of push
PushEntryFront(history, newStatusEntry) == <<newStatusEntry>> \o history

\* history.push(newStatusEntry)
PushEntry(history, newStatusEntry) == Append(history, newStatusEntry)

\* mutant of TrimHistory: keeps the oldest entries
TrimHistoryOldest(history, historyLimit) ==
    IF historyLimit > 0 /\ Len(history) > historyLimit
    THEN SubSeq(history, 1, historyLimit)
    ELSE history

\* history.slice(history.length - historyLimit) when over the limit
TrimHistory(history, historyLimit) ==
    IF historyLimit > 0 /\ Len(history) > historyLimit
    THEN SubSeq(history, Len(history) - historyLimit + 1, Len(history))
    ELSE history

DEFAULT_PROFILE ==
    [preferences |-> [theme |-> "default", visibility |-> "public"],
     custom_emojis |-> <<>>,
     timezone |-> Null,
     created_at |-> Null,
     updated_at |-> Null]

\* the profile getUserProfile returns for what it read under the profile
\* key (Null: nothing stored); the stored keys win over the defaults
LoadedProfile(profile, now) ==
    IF profile = Null
    THEN [DEFAULT_PROFILE EXCEPT !.created_at = [kind |-> "iso", t |-> now],
                                 !.updated_at = [kind |-> "iso", t |-> now]]
    ELSE profile

\* (str || '').toLowerCase() on the names the model uses
toLowerCase(str) ==
    CASE str = "Energy" -> "energy"
      [] str = "Mood" -> "mood"
      [] str = "Hunger" -> "hunger"
      [] str = "Processing Status" -> "processing status"
      [] str = "Work" -> "work"
      [] OTHER -> str

\* applyCustomEmojis: customEmojis is a function from names to emojis, the
\* empty function when the profile has none
applyCustomEmojis(statusData, customEmojis) ==
    IF DOMAIN customEmojis = {} THEN statusData
    ELSE
      LET S1 == IF Has(statusData, "mood_emoji") /\ "mood" \in DOMAIN customEmojis
                THEN Put(statusData, "mood_emoji", customEmojis["mood"])
                ELSE statusData
          S2 == IF Has(S1, "metrics")
                THEN Put(S1, "metrics",
                         [i \in DOMAIN S1.metrics |->
                            IF Has(S1.metrics[i], "name")
                               /\ toLowerCase(S1.metrics[i].name) \in DOMAIN customEmojis
                            THEN Put(S1.metrics[i], "icon",
                                     customEmojis[toLowerCase(S1.metrics[i].name)])
                            ELSE S1.metrics[i]])
                ELSE S1
          S3 == IF Has(S2, "personal_states")
                THEN Put(S2, "personal_states",
                         [i \in DOMAIN S2.personal_states |->
                            IF Has(S2.personal_states[i], "name")
                               /\ toLowerCase(S2.personal_states[i].name) \in DOMAIN customEmojis
                            THEN Put(S2.personal_states[i], "emoji",
                                     customEmojis[toLowerCase(S2.personal_states[i].name)])
                            ELSE S2.personal_states[i]])
                ELSE S2
      IN S3

\* highlights?.find(h => h.type === 'activity' && timeframe current/future)
HasActivityHighlight(statusData) ==
    \E i \in DOMAIN ArrayOrEmpty(statusData, "highlights") :
        LET h == statusData.highlights[i] IN
        /\ Has(h, "type") /\ h.type = "activity"
        /\ Has(h, "timeframe") /\ h.timeframe \in {"current", "future"}

ActivityHighlight(statusData) ==
    LET i == MinOf({j \in DOMAIN statusData.highlights :
                      LET h == statusData.highlights[j] IN
                      /\ Has(h, "type") /\ h.type = "activity"
                      /\ Has(h, "timeframe") /\ h.timeframe \in {"current", "future"}})
    IN statusData.highlights[i]

\* the activity object createActivity stores
NewActivity(activityId, userId, statusData, now) ==
    [id |-> activityId,
     creator |-> userId,
     title |-> ActivityHighlight(statusData).description,
     type |-> IF Has(statusData, "visual_theme") THEN statusData.visual_theme
              ELSE "general",
     participants |-> <<userId>>,
     created_at |-> [kind |-> "iso", t |-> now]]

\* formatDiscordMessage: the parts of the payload that depend on the snapshot
formatDiscordMessage(statusData, userId) ==
    [user |-> userId,
     title |-> IF Has(statusData, "mood_emoji") THEN statusData.mood_emoji
               ELSE "bust",
     description |-> IF Has(statusData, "overall_status")
                     THEN statusData.overall_status ELSE "Status Update",
     analysis_issues |-> ArrayOrEmpty(statusData, "errors"),
     join_activity |-> HasActivityHighlight(statusData) /\ Has(statusData, "activity_id")]

-----------------------------------------------------------------------------
(* Workers run requests of one user and interleave at every await. Two      *)
(* specifications share the storage steps: SpecUpdate runs whole            *)
(* processStatusUpdate requests one after the other, SpecStore runs         *)
(* overlapping storeUserStatus calls.                                       *)

MaxUpdates == 2
MaxStores == 4

UserId == "u1"

Workers == DOMAIN req

HistoryLimits == {0, 1, 2}

Services == {"anthropic", "llama"}

\* the user ids of the requests: the user, and a missing id
UserIds == {UserId, ""}

\* the statusText arguments of the requests: a narrative, a whitespace-only
\* string, the empty string and a number
StatusTexts ==
    {[type |-> "string", value |-> "feeling tired"],
     [type |-> "string", value |-> " "],
     [type |-> "string", value |-> ""],
     [type |-> "number", value |-> "42"]}

\* what the completion spells out when it follows the schema
UpdatePayload ==
    [overall_status |-> "Winding down",
     mood_emoji |-> "sleepy",
     visual_theme |-> "rest",
     accent_color |-> "blue",
     metrics |-> <<[name |-> "Energy", value |-> "Low"]>>,
     highlights |-> <<[type |-> "activity", description |-> <<"Evening walk">>,
                       timeframe |-> "current", is_new |-> TRUE]>>,
     persistent_context |-> <<>>,
     personal_states |-> <<[name |-> "Hunger",
                            level |-> [numeric |-> TRUE, tenths |-> 30]]>>,
     narrative_summary |-> <<"Winding down after work.">>,
     errors |-> <<>>]

\* what the provider answers
Responses ==
    {[kind |-> "http", text |-> <<>>],
     [kind |-> "json", text |-> <<>>],
     [kind |-> "json", text |-> <<"LB", "FULL", "RB">>],
     [kind |-> "json", text |-> <<"FO", "LB", "FULL", "RB", "FC">>]}

\* a worker between requests
IdleWorker ==
    [pc |-> "idle", userId |-> "", statusText |-> [type |-> "undefined", value |-> ""],
     previousStatus |-> Null,
     newStatusData |-> Null, llmFailed |-> FALSE, history |-> <<>>,
     newStatusEntry |-> Null, storedStatusEntry |-> Null, overlapped |-> FALSE,
     userProfile |-> Null, outcome |-> "none"]

InStore(w) == req[w].pc \in {"read", "historyStored"}

UpdateInit ==
    /\ clock = 0
    /\ ExIdle
    /\ RelIdle
    /\ PsIdle
    /\ VrIdle
    /\ cfg \in [historyLimit : HistoryLimits, service : Services,
                channelId : {"status-channel", ""},
                relevanceThreshold : {[num |-> TRUE, v |-> DefaultThreshold]}]
    /\ kvHistory = Null
    /\ kvLatest = Null
    /\ kvProfile = Null
    /\ kvActivities = <<>>
    /\ channel = <<>>
    /\ req = [w \in {"w1"} |-> IdleWorker]
    /\ audit = [started |-> 0, returned |-> <<>>, overlap |-> FALSE,
                failed |-> FALSE, evicted |-> FALSE]

\* the request is over; llmFailed is kept for the record
Finish(w, outcome, llmFailed) ==
    [req EXCEPT ![w] = [IdleWorker EXCEPT !.outcome = outcome,
                                          !.llmFailed = llmFailed]]

\* mutant of InputError: the status text is not examined
InputErrorIdOnly(userId, statusText) == userId = ""

\* the checks at the entry of processStatusUpdate: !userId, !statusText,
\* typeof statusText !== 'string', statusText.trim() === ''
InputError(userId, statusText) ==
    \/ userId = ""
    \/ statusText.type # "string"
    \/ statusText.value \in {"", " "}

\* processStatusUpdate from its entry to the await of getLatestUserStatus
\* (lines 181-220) and getLatestUserStatus itself
Begin(w, userId, statusText, kvFails) ==
    /\ req[w].pc = "idle"
    /\ audit.started < MaxUpdates
    /\ audit' = [audit EXCEPT !.started = @ + 1]
    /\ IF InputError(userId, statusText)
       THEN req' = [req EXCEPT ![w] =
                       [IdleWorker EXCEPT !.outcome = "rejected",
                                          !.userId = userId,
                                          !.statusText = statusText]]
       ELSE IF cfg.channelId = ""
       THEN req' = [req EXCEPT ![w] =
                       [IdleWorker EXCEPT !.outcome = "not configured",
                                          !.userId = userId,
                                          !.statusText = statusText]]
       ELSE req' = [req EXCEPT ![w] =
                       [IdleWorker EXCEPT
                          !.pc = "fetched",
                          !.userId = userId,
                          !.statusText = statusText,
                          !.previousStatus = IF kvFails THEN Null ELSE kvLatest]]
    /\ UNCHANGED <<exVars, clock, relVars, psVars, vrVars, cfg, kvHistory, kvLatest,
                   kvProfile, kvActivities, channel>>

\* a completion that carries the items of the context it was shown forward,
\* field for field, together with what it makes of the new text
CarriedForward(payload, previousStatus) ==
    [payload EXCEPT
       !.metrics = ArrayOrEmpty(previousStatus.processed_status, "metrics"),
       !.persistent_context =
           ArrayOrEmpty(previousStatus.processed_status, "persistent_context")]

\* steps 3, 4 and 4b, then storeUserStatus up to its read of the history key;
\* carries tells whether the completion carries its context forward
Complete(w, response, carries, kvFails) ==
    /\ req[w].pc = "fetched"
    /\ LET previousStatus == req[w].previousStatus
           filteredContext ==
               IF previousStatus # Null
               THEN filterRelevantContext(
                        calculateContextRelevance(previousStatus, clock),
                        cfg.relevanceThreshold)
               ELSE Null
           payload ==
               IF carries /\ filteredContext # Null
               THEN CarriedForward(UpdatePayload, filteredContext)
               ELSE UpdatePayload
           completion == processWithLLM(req[w].statusText.value, cfg.service,
                                        filteredContext, response, payload)
           newStatusData ==
               IF completion = Thrown THEN Thrown
               ELSE ReconcilePersonalStates(previousStatus, completion, clock)
           llmFailed == /\ ~FormatUserInputThrows(filteredContext)
                        /\ CompletionFails(cfg.service, response)
           others == {v \in Workers \ {w} : InStore(v)}
       IN
       IF newStatusData = Thrown
       THEN /\ req' = Finish(w, "threw", llmFailed)
            /\ UNCHANGED audit
       ELSE IF kvFails
       THEN /\ req' = [req EXCEPT ![w].pc = "stored",
                                  ![w].newStatusData = newStatusData,
                                  ![w].llmFailed = llmFailed]
            /\ audit' = [audit EXCEPT !.failed = TRUE]
       ELSE /\ req' = [v \in Workers |->
                         IF v = w
                         THEN [req[w] EXCEPT
                                 !.pc = "read",
                                 !.newStatusData = newStatusData,
                                 !.llmFailed = llmFailed,
                                 !.history = HistoryOf(kvHistory),
                                 !.overlapped = others # {}]
                         ELSE IF v \in others
                              THEN [req[v] EXCEPT !.overlapped = TRUE]
                              ELSE req[v]]
            /\ audit' = [audit EXCEPT !.overlap = @ \/ others # {}]
    /\ UNCHANGED <<exVars, clock, relVars, psVars, vrVars, cfg, kvHistory, kvLatest,
                   kvProfile, kvActivities, channel>>

\* mutant of StoreHistory: the entries kept from the history read are
\* rebuilt around the new raw input
StoreHistoryRebuilt(w, kvFails) ==
    /\ req[w].pc = "read"
    /\ clock' = clock + 1
    /\ LET newStatusEntry == NewStatusEntry(clock', req[w].statusText.value,
                                            req[w].newStatusData)
           rebuilt == [i \in DOMAIN req[w].history |->
                         Put(req[w].history[i], "raw_input",
                             req[w].statusText.value)]
           pushed == PushEntry(rebuilt, newStatusEntry)
           history == TrimHistory(pushed, cfg.historyLimit)
       IN
       IF kvFails
       THEN /\ req' = [req EXCEPT ![w].pc = "stored", ![w].history = <<>>]
            /\ audit' = [audit EXCEPT !.failed = TRUE]
            /\ UNCHANGED kvHistory
       ELSE /\ kvHistory' = [history |-> history]
            /\ req' = [req EXCEPT ![w].pc = "historyStored",
                                  ![w].history = <<>>,
                                  ![w].newStatusEntry = newStatusEntry]
            /\ audit' = [audit EXCEPT !.evicted = @ \/ Len(history) < Len(pushed)]
    /\ UNCHANGED <<exVars, relVars, psVars, vrVars, cfg, kvLatest, kvProfile,
                   kvActivities, channel>>

\* storeUserStatus from the new entry to the put of the history key
StoreHistory(w, kvFails) ==
    /\ req[w].pc = "read"
    /\ clock' = clock + 1
    /\ LET newStatusEntry == NewStatusEntry(clock', req[w].statusText.value,
                                            req[w].newStatusData)
           pushed == PushEntry(req[w].history, newStatusEntry)
           history == TrimHistory(pushed, cfg.historyLimit)
       IN
       IF kvFails
       THEN /\ req' = [req EXCEPT ![w].pc = "stored", ![w].history = <<>>]
            /\ audit' = [audit EXCEPT !.failed = TRUE]
            /\ UNCHANGED kvHistory
       ELSE /\ kvHistory' = [history |-> history]
            /\ req' = [req EXCEPT ![w].pc = "historyStored",
                                  ![w].history = <<>>,
                                  ![w].newStatusEntry = newStatusEntry]
            /\ audit' = [audit EXCEPT !.evicted = @ \/ Len(history) < Len(pushed)]
    /\ UNCHANGED <<exVars, relVars, psVars, vrVars, cfg, kvLatest, kvProfile,
                   kvActivities, channel>>

\* mutant of StoreLatest: the snapshot of a failed completion is returned
\* but not put under the latest key
StoreLatestAnalyzed(w, kvFails) ==
    /\ req[w].pc = "historyStored"
    /\ IF kvFails
       THEN /\ req' = [req EXCEPT ![w].pc = "stored", ![w].newStatusEntry = Null]
            /\ audit' = [audit EXCEPT !.failed = TRUE]
            /\ UNCHANGED kvLatest
       ELSE /\ kvLatest' = IF req[w].llmFailed THEN kvLatest
                           ELSE req[w].newStatusEntry
            /\ req' = [req EXCEPT ![w].pc = "stored",
                                  ![w].newStatusEntry = Null,
                                  ![w].storedStatusEntry = req[w].newStatusEntry]
            /\ audit' = [audit EXCEPT
                           !.returned = Append(@, req[w].newStatusEntry)]
    /\ UNCHANGED <<exVars, clock, relVars, psVars, vrVars, cfg, kvHistory, kvProfile,
                   kvActivities, channel>>

\* storeUserStatus: the put of the latest key and the return
StoreLatest(w, kvFails) ==
    /\ req[w].pc = "historyStored"
    /\ IF kvFails
       THEN /\ req' = [req EXCEPT ![w].pc = "stored", ![w].newStatusEntry = Null]
            /\ audit' = [audit EXCEPT !.failed = TRUE]
            /\ UNCHANGED kvLatest
       ELSE /\ kvLatest' = req[w].newStatusEntry
            /\ req' = [req EXCEPT ![w].pc = "stored",
                                  ![w].newStatusEntry = Null,
                                  ![w].storedStatusEntry = req[w].newStatusEntry]
            /\ audit' = [audit EXCEPT
                           !.returned = Append(@, req[w].newStatusEntry)]
    /\ UNCHANGED <<exVars, clock, relVars, psVars, vrVars, cfg, kvHistory, kvProfile,
                   kvActivities, channel>>

\* mutant of AfterStore: a null result aborts the request
AfterStoreAbort(storedStatusEntry) ==
    IF storedStatusEntry = Null THEN "throw" ELSE "continue"

\* processStatusUpdate lines 255-262: a null result of storeUserStatus is
\* logged and the request goes on
AfterStore(storedStatusEntry) == "continue"

\* the check of the store result, then step 5b: getUserProfile
LoadProfile(w, getFails, putFails) ==
    /\ req[w].pc = "stored"
    /\ IF AfterStore(req[w].storedStatusEntry) = "throw"
       THEN /\ req' = Finish(w, "threw", req[w].llmFailed)
            /\ UNCHANGED kvProfile
       ELSE IF getFails \/ (kvProfile = Null /\ putFails)
       THEN /\ req' = [req EXCEPT ![w].pc = "profiled",
                                  ![w].userProfile = DEFAULT_PROFILE]
            /\ UNCHANGED kvProfile
       ELSE /\ req' = [req EXCEPT ![w].pc = "profiled",
                                  ![w].userProfile = LoadedProfile(kvProfile, clock)]
            /\ kvProfile' = LoadedProfile(kvProfile, clock)
    /\ UNCHANGED <<exVars, clock, relVars, psVars, vrVars, cfg, kvHistory, kvLatest,
                   kvActivities, channel, audit>>

\* mutant of Post: the entry under the latest key shares the object the
\* display overrides are written to
PostStoring(w, activityFails, discordFails) ==
    /\ req[w].pc = "profiled"
    /\ LET emojified == applyCustomEmojis(req[w].newStatusData,
                                          req[w].userProfile.custom_emojis)
           wanted == HasActivityHighlight(emojified)
           activityId == Len(kvActivities) + 1
           finalStatusData ==
               IF wanted /\ ~activityFails
               THEN Put(emojified, "activity_id", activityId)
               ELSE emojified
       IN
       /\ kvActivities' =
             IF wanted /\ ~activityFails
             THEN Append(kvActivities,
                         NewActivity(activityId, req[w].userId, emojified, clock))
             ELSE kvActivities
       /\ kvLatest' = IF kvLatest = Null THEN kvLatest
                      ELSE [kvLatest EXCEPT !.processed_status = finalStatusData]
       /\ IF discordFails
          THEN /\ req' = Finish(w, "post failed", req[w].llmFailed)
               /\ UNCHANGED channel
          ELSE /\ req' = Finish(w, "posted", req[w].llmFailed)
               /\ channel' = Append(channel,
                                    formatDiscordMessage(finalStatusData, req[w].userId))
    /\ UNCHANGED <<exVars, clock, relVars, psVars, vrVars, cfg, kvHistory,
                   kvProfile, audit>>

\* steps 5c to 7: custom emojis, createActivity, formatDiscordMessage and
\* createStatusMessage
Post(w, activityFails, discordFails) ==
    /\ req[w].pc = "profiled"
    /\ LET emojified == applyCustomEmojis(req[w].newStatusData,
                                          req[w].userProfile.custom_emojis)
           wanted == HasActivityHighlight(emojified)
           activityId == Len(kvActivities) + 1
           finalStatusData ==
               IF wanted /\ ~activityFails
               THEN Put(emojified, "activity_id", activityId)
               ELSE emojified
       IN
       /\ kvActivities' =
             IF wanted /\ ~activityFails
             THEN Append(kvActivities,
                         NewActivity(activityId, req[w].userId, emojified, clock))
             ELSE kvActivities
       /\ IF discordFails
          THEN /\ req' = Finish(w, "post failed", req[w].llmFailed)
               /\ UNCHANGED channel
          ELSE /\ req' = Finish(w, "posted", req[w].llmFailed)
               /\ channel' = Append(channel,
                                    formatDiscordMessage(finalStatusData, req[w].userId))
    /\ UNCHANGED <<exVars, clock, relVars, psVars, vrVars, cfg, kvHistory, kvLatest,
                   kvProfile, audit>>

UpdateNext ==
    \E w \in Workers :
        \/ \E userId \in UserIds, statusText \in StatusTexts, kvFails \in BOOLEAN :
               Begin(w, userId, statusText, kvFails)
        \/ \E response \in Responses, kvFails \in BOOLEAN :
               Complete(w, response, FALSE, kvFails)
        \/ \E kvFails \in BOOLEAN : StoreHistory(w, kvFails)
        \/ \E kvFails \in BOOLEAN : StoreLatest(w, kvFails)
        \/ \E getFails \in BOOLEAN, putFails \in BOOLEAN :
               LoadProfile(w, getFails, putFails)
        \/ \E activityFails \in BOOLEAN, discordFails \in BOOLEAN :
               Post(w, activityFails, discordFails)

SpecUpdate == UpdateInit /\ [][UpdateNext]_vars

-----------------------------------------------------------------------------
(* Specification of the store: storeUserStatus calls of one user that may   *)
(* overlap.                                                                 *)

StoreInit ==
    /\ clock = 0
    /\ ExIdle
    /\ RelIdle
    /\ PsIdle
    /\ VrIdle
    /\ cfg \in [historyLimit : HistoryLimits, service : {"anthropic"},
                channelId : {"status-channel"},
                relevanceThreshold : {[num |-> TRUE, v |-> DefaultThreshold]}]
    /\ kvHistory = Null
    /\ kvLatest = Null
    /\ kvProfile = Null
    /\ kvActivities = <<>>
    /\ channel = <<>>
    /\ req = [w \in {"w1", "w2"} |-> IdleWorker]
    /\ audit = [started |-> 0, returned |-> <<>>, overlap |-> FALSE,
                failed |-> FALSE, evicted |-> FALSE]

\* storeUserStatus from its entry to its read of the history key
StoreCall(w, processedStatus, kvFails) ==
    /\ req[w].pc = "idle"
    /\ audit.started < MaxStores
    /\ LET others == {v \in Workers \ {w} : InStore(v)} IN
       IF processedStatus = Null \/ kvFails
       THEN /\ req' = Finish(w, "null", FALSE)
            /\ audit' = [audit EXCEPT !.started = @ + 1, !.failed = TRUE]
       ELSE /\ req' = [v \in Workers |->
                         IF v = w
                         THEN [IdleWorker EXCEPT
                                 !.pc = "read",
                                 !.userId = UserId,
                                 !.statusText = [type |-> "string",
                                                 value |-> "feeling tired"],
                                 !.newStatusData = processedStatus,
                                 !.history = HistoryOf(kvHistory),
                                 !.overlapped = others # {}]
                         ELSE IF v \in others
                              THEN [req[v] EXCEPT !.overlapped = TRUE]
                              ELSE req[v]]
            /\ audit' = [audit EXCEPT !.started = @ + 1,
                                      !.overlap = @ \/ others # {}]
    /\ UNCHANGED <<exVars, clock, relVars, psVars, vrVars, cfg, kvHistory, kvLatest,
                   kvProfile, kvActivities, channel>>

\* the caller has the result of storeUserStatus
StoreReturn(w) ==
    /\ req[w].pc = "stored"
    /\ req' = Finish(w, IF req[w].storedStatusEntry = Null THEN "null" ELSE "entry",
                     FALSE)
    /\ UNCHANGED <<exVars, clock, relVars, psVars, vrVars, cfg, kvHistory, kvLatest,
                   kvProfile, kvActivities, channel, audit>>

StoreNext ==
    \E w \in Workers :
        \/ \E processedStatus \in {UpdatePayload, Null}, kvFails \in BOOLEAN :
               StoreCall(w, processedStatus, kvFails)
        \/ \E kvFails \in BOOLEAN : StoreHistory(w, kvFails)
        \/ \E kvFails \in BOOLEAN : StoreLatest(w, kvFails)
        \/ StoreReturn(w)

SpecStore == StoreInit /\ [][StoreNext]_vars

-----------------------------------------------------------------------------
(* Properties of the pipeline *)

IsFallback(statusData) ==
    /\ Has(statusData, "overall_status")
    /\ statusData.overall_status = "Analysis Failed"
    /\ Has(statusData, "errors")
    /\ statusData.errors # <<>>

AfterCompletion(w) == req[w].pc \in {"read", "historyStored", "stored", "profiled"}

\* C10: when the completion call fails (provider error, unknown provider,
\* bad response structure) processWithLLM does not throw and returns the
\* fallback snapshot, and processStatusUpdate goes on to store and to post
\* that snapshot.
C10_FailedCompletionFallsBack ==
    /\ [](\A w \in Workers :
            req[w].llmFailed =>
              /\ req[w].outcome # "threw"
              /\ AfterCompletion(w) => IsFallback(req[w].newStatusData)
              /\ req[w].pc = "idle" => req[w].outcome \in {"posted", "post failed"})
    /\ [][\A w \in Workers :
            req[w].llmFailed =>
              /\ (req[w].pc = "read" /\ kvHistory' # kvHistory) =>
                    kvHistory'.history[Len(kvHistory'.history)].processed_status
                        = req[w].newStatusData
              /\ (req[w].pc = "profiled" /\ req'[w].outcome = "posted") =>
                    /\ channel' # channel
                    /\ channel'[Len(channel')].description = "Analysis Failed"
                    /\ channel'[Len(channel')].analysis_issues # <<>>]_vars

C10_Witness ==
    \E w \in Workers :
        /\ req[w].llmFailed
        /\ req[w].outcome = "posted"
        /\ channel # <<>>
        /\ channel[Len(channel)].description = "Analysis Failed"
        /\ kvLatest # Null
        /\ IsFallback(kvLatest.processed_status)

-----------------------------------------------------------------------------
(* Properties of the store *)

Stored == HistoryOf(kvHistory)

\* the step in which storeUserStatus returns an entry to worker w
StoreReturnsEntry(w) ==
    /\ req[w].pc = "historyStored"
    /\ req'[w].pc = "stored"
    /\ req'[w].storedStatusEntry # Null

LatestIsLast ==
    /\ kvLatest # Null
    /\ Stored # <<>>
    /\ kvLatest = Stored[Len(Stored)]

\* C1 as stated: whenever storeUserStatus returns an entry, the value under
\* the latest key equals the last element of the stored history, in every
\* interleaving of the user's updates.
C1_LatestIsLastOfHistory ==
    [][\A w \in Workers : StoreReturnsEntry(w) => LatestIsLast']_vars

\* C1: whenever a storeUserStatus call that overlapped no other store of the
\* user returns an entry, the value under the latest key equals the last
\* element of the stored history.
C1_LatestIsLastWhenAlone ==
    [][\A w \in Workers :
          (StoreReturnsEntry(w) /\ ~req[w].overlapped) => LatestIsLast']_vars

C1_Witness ==
    \E w \in Workers :
        /\ req[w].pc = "stored"
        /\ req[w].storedStatusEntry # Null
        /\ ~req[w].overlapped
        /\ audit.overlap
        /\ Len(Stored) >= 2
        /\ kvLatest = req[w].storedStatusEntry

\* every call so far ran alone and returned an entry, and none is running
Sequential ==
    /\ ~audit.overlap
    /\ ~audit.failed
    /\ \A w \in Workers : ~InStore(w)

LastN(seq, n) == SubSeq(seq, Len(seq) - n + 1, Len(seq))

\* C2: with a cap C > 0 the stored history never holds more than C entries,
\* and after N > C sequential successful calls it is exactly the C entries
\* appended last, in the order they were appended.
C2_HistoryCap ==
    cfg.historyLimit > 0 =>
      /\ Len(Stored) <= cfg.historyLimit
      /\ (Sequential /\ Len(audit.returned) > cfg.historyLimit) =>
            Stored = LastN(audit.returned, cfg.historyLimit)

C2_Witness ==
    /\ cfg.historyLimit > 1
    /\ Sequential
    /\ Len(audit.returned) > cfg.historyLimit
    /\ Len(Stored) = cfg.historyLimit

Occurrences(seq, x) == Cardinality({i \in DOMAIN seq : seq[i] = x})

\* C3: every request whose store succeeded has exactly one entry in the
\* stored history once the stores have completed, overlapping requests
\* included, as long as the cap evicted nothing.
C3_EveryEntryKept ==
    (~audit.evicted /\ \A w \in Workers : ~InStore(w)) =>
        \A i \in DOMAIN audit.returned :
            Occurrences(Stored, audit.returned[i]) = 1

-----------------------------------------------------------------------------
(* Specification of the pipeline over a store that already holds an entry   *)
(* this code did not write: its timestamp does not parse, or is absent.     *)

LegacyEntries ==
    {[timestamp |-> [kind |-> "garbage"], raw_input |-> "feeling fine",
      processed_status |-> UpdatePayload],
     [raw_input |-> "feeling fine", processed_status |-> UpdatePayload]}

SeededInit ==
    /\ clock = 0
    /\ ExIdle
    /\ RelIdle
    /\ PsIdle
    /\ VrIdle
    /\ cfg \in [historyLimit : HistoryLimits, service : Services,
                channelId : {"status-channel"},
                relevanceThreshold : {[num |-> TRUE, v |-> DefaultThreshold]}]
    /\ \E legacy \in LegacyEntries :
          /\ kvHistory = [history |-> <<legacy>>]
          /\ kvLatest = legacy
    /\ kvProfile = Null
    /\ kvActivities = <<>>
    /\ channel = <<>>
    /\ req = [w \in {"w1"} |-> IdleWorker]
    /\ audit = [started |-> 0, returned |-> <<>>, overlap |-> FALSE,
                failed |-> FALSE, evicted |-> FALSE]

SpecSeeded == SeededInit /\ [][UpdateNext]_vars

\* the previous entry read by the request cannot be used as context
PriorUnusable(previousStatus) ==
    /\ previousStatus # Null
    /\ (~Has(previousStatus, "timestamp") \/ previousStatus.timestamp.kind # "iso")

\* C11: when the prior context cannot be obtained or prepared (the read of
\* the latest entry fails, or the entry is unusable, its timestamp not
\* parsing) the request goes on without context: the steps from the
\* completion to the store are taken and nothing is thrown.
C11_PriorContextDegrades ==
    [][\A w \in Workers :
          (req[w].pc = "fetched" /\ req'[w] # req[w]
             /\ (req[w].previousStatus = Null \/ PriorUnusable(req[w].previousStatus)))
          => req'[w].pc \in {"read", "stored"}]_vars

StoreFailed(w) == req[w].storedStatusEntry = Null

\* C12: when storeUserStatus returns null because a KV get or put failed,
\* the request does not throw because of it: it loads the profile, formats
\* the snapshot it holds and posts it.
C12_StoreFailureStillPosts ==
    [][\A w \in Workers :
          req'[w] # req[w] =>
            /\ req[w].pc \in {"read", "historyStored"} =>
                  req'[w].pc \in {"historyStored", "stored"}
            /\ (req[w].pc = "stored" /\ StoreFailed(w)) =>
                  /\ req'[w].pc = "profiled"
                  /\ req'[w].newStatusData = req[w].newStatusData
            /\ (req[w].pc = "profiled" /\ StoreFailed(w)) =>
                  \/ req'[w].outcome = "post failed" /\ channel' = channel
                  \/ /\ req'[w].outcome = "posted"
                     /\ Len(channel') = Len(channel) + 1
                     /\ channel'[Len(channel')].description
                           = req[w].newStatusData.overall_status
                     /\ channel'[Len(channel')].analysis_issues
                           = req[w].newStatusData.errors]_vars

C12_Witness ==
    \E w \in Workers :
        /\ audit.started = 1
        /\ audit.failed
        /\ req[w].outcome = "posted"
        /\ Len(channel) = 1
        /\ kvLatest = Null

\* the step in which worker w takes up a request
Begins(w) == req[w].pc = "idle" /\ req'[w] # req[w]

\* a request as the claim describes it: no user id, or a status text that is
\* not a string, empty or only white space
InvalidRequest(r) ==
    \/ r.userId = ""
    \/ r.statusText.type # "string"
    \/ r.statusText.value \in {"", " "}

\* C13: a request with a missing user id, or with a status text that is
\* empty, whitespace-only or not a string, is thrown back before anything
\* is done: nothing is read from or written to the store, no completion is
\* asked for and no message is posted.
C13_InvalidInputRejected ==
    [][\A w \in Workers :
          (Begins(w) /\ InvalidRequest(req'[w])) =>
             /\ req'[w].pc = "idle"
             /\ req'[w].outcome = "rejected"
             /\ req'[w].previousStatus = Null
             /\ UNCHANGED <<kvHistory, kvLatest, kvProfile, kvActivities, channel>>]_vars

C13_Witness ==
    \E w \in Workers :
        /\ req[w].outcome = "rejected"
        /\ req[w].userId = UserId
        /\ req[w].statusText.type = "string"
        /\ req[w].statusText.value = " "
        /\ audit.started = 2
        /\ kvLatest # Null
        /\ Len(channel) = 1

-----------------------------------------------------------------------------
(* Properties of relevance on an entry whose timestamp does not parse *)

Unscorable == ctxScored # Null /\ ctxPrev.timestamp.kind # "iso"

\* C14: when the timestamp of the previous entry does not parse,
\* calculateContextRelevance returns the entry as it is, and the items that
\* could not be scored are still there after filterRelevantContext.
C14_UnscoredKept ==
    Unscorable =>
      /\ ctxScored = ctxPrev
      /\ ctxFiltered # Null
      /\ \A field \in ScoredArrays :
            ArrayOrEmpty(ctxFiltered.processed_status, field)
               = ArrayOrEmpty(ctxPrev.processed_status, field)

-----------------------------------------------------------------------------
(* Specification of the pipeline with completions that may carry the        *)
(* context they were shown forward.                                         *)

CarryNext ==
    \E w \in Workers :
        \/ \E userId \in UserIds, statusText \in StatusTexts, kvFails \in BOOLEAN :
               Begin(w, userId, statusText, kvFails)
        \/ \E response \in Responses, carries \in BOOLEAN, kvFails \in BOOLEAN :
               Complete(w, response, carries, kvFails)
        \/ \E kvFails \in BOOLEAN : StoreHistory(w, kvFails)
        \/ \E kvFails \in BOOLEAN : StoreLatest(w, kvFails)
        \/ \E getFails \in BOOLEAN, putFails \in BOOLEAN :
               LoadProfile(w, getFails, putFails)
        \/ \E activityFails \in BOOLEAN, discordFails \in BOOLEAN :
               Post(w, activityFails, discordFails)

SpecCarry == UpdateInit /\ [][CarryNext]_vars

HasScore(statusEntry) ==
    \E field \in ScoredArrays :
        \E i \in DOMAIN ArrayOrEmpty(statusEntry.processed_status, field) :
            Has(statusEntry.processed_status[field][i], "relevance_score")

\* C15: no entry under the history key or the latest key has a
\* relevance_score on a metric, a highlight or a persistent_context item.
C15_NoScoreStored ==
    /\ kvLatest # Null => ~HasScore(kvLatest)
    /\ \A i \in DOMAIN Stored : ~HasScore(Stored[i])

-----------------------------------------------------------------------------
(* Properties of the latest pointer *)

Quiescent == \A w \in Workers : ~InStore(w)

LatestIsNewest ==
    /\ kvLatest # Null
    /\ \A i \in DOMAIN audit.returned :
          audit.returned[i].timestamp.t <= kvLatest.timestamp.t

\* C16 as stated: once no update of the user is in flight, the entry under
\* the latest key has the greatest timestamp of all entries storeUserStatus
\* returned, also when updates overlapped.
C16_LatestIsNewest ==
    (Quiescent /\ audit.returned # <<>>) => LatestIsNewest

\* C16: once no update of the user is in flight, and no two stores of the
\* user overlapped, the entry under the latest key has the greatest
\* timestamp of all entries storeUserStatus returned.
C16_LatestIsNewestWhenAlone ==
    (Quiescent /\ ~audit.overlap /\ audit.returned # <<>>) => LatestIsNewest

C16_Witness ==
    /\ Quiescent
    /\ ~audit.overlap
    /\ audit.failed
    /\ Len(audit.returned) >= 2
    /\ kvLatest = audit.returned[Len(audit.returned)]

(***************************************************************************)
(* Purge: /status purge and purgeUserData over the KV namespace.            *)
(*                                                                          *)
(* A key is the sequence of the pieces it is built from, a user id the      *)
(* sequence of its digits, so that String.startsWith and the prefix match   *)
(* of kvStore.list are computed, not assumed.  An entry of the namespace    *)
(* is [name, creator]; creator is <<>> on values without that field.        *)
(***************************************************************************)

PurgeUsers == {<<"1", "2">>, <<"1", "2", "3">>}

Unidentified == <<>>

LatestKey(userId) == <<"user:">> \o userId \o <<":", "latest_status">>

ProfileKey(userId) == <<"profile:">> \o userId

InteractionLogKey(userId) == <<"log:interactions:">> \o userId

ActivityKey(activityId) == <<"activity:", activityId>>

NoKey == <<>>

KeySpace ==
    {[name |-> LatestKey(u), creator |-> <<>>] : u \in PurgeUsers}
    \cup {[name |-> ProfileKey(u), creator |-> <<>>] : u \in PurgeUsers}
    \cup {[name |-> InteractionLogKey(<<"1", "2", "3">>), creator |-> <<>>],
          [name |-> ActivityKey("a1"), creator |-> <<"1", "2">>]}

StartsWith(key, prefix) ==
    Len(prefix) <= Len(key) /\ SubSeq(key, 1, Len(prefix)) = prefix

KvList(store, prefix) == {e \in store : StartsWith(e.name, prefix)}

KvDeleteKeeps(store, keys) == store

KvDelete(store, keys) == store \ keys

keyPrefixes(userId) ==
    << <<"user:">> \o userId \o <<":">>,
       <<"profile:">> \o userId,
       <<"log:interactions:">> \o userId >>

\* failList: 0 when every kvStore.list answers, 1 when the listing of
\* "activity:" fails, 1 + i when the listing of keyPrefixes[i] fails.
\* failKey: the key on which kvStore.get and kvStore.delete fail, or NoKey.
ListFailures == 0..4

purgeUserData(userId, store, failList, failKey) ==
    IF userId = Unidentified
    THEN [threw |-> TRUE, count |-> 0, failed |-> FALSE, store |-> store]
    ELSE
    LET activities == IF failList = 1 THEN {} ELSE KvList(store, <<"activity:">>)
        activityKeysToDelete ==
            {e \in activities : e.name # failKey /\ e.creator = userId}
        reached == IF failList = 0 THEN 3 ELSE failList - 2
        listed == UNION {KvList(store, keyPrefixes(userId)[i]) : i \in 1..reached}
        attempted == listed \cup (IF failList = 0 THEN activityKeysToDelete ELSE {})
        deleted == {e \in attempted : e.name # failKey}
    IN  [threw  |-> failList # 0,
         count  |-> IF failList # 0 THEN 0 ELSE Cardinality(deleted),
         failed |-> \/ failList # 0
                    \/ \E e \in activities \cup attempted : e.name = failKey,
         store  |-> KvDelete(store, deleted)]

ConfirmOptions ==
    {Null, [type |-> "boolean", value |-> "true"],
     [type |-> "boolean", value |-> "false"],
     [type |-> "string", value |-> "true"]}

ConfirmedTruthy(confirmOption) ==
    confirmOption # Null /\ confirmOption # [type |-> "boolean", value |-> "false"]

Confirmed(confirmOption) == confirmOption = [type |-> "boolean", value |-> "true"]

PurgeInit ==
    /\ clock = 0
    /\ RelIdle
    /\ PsIdle
    /\ VrIdle
    /\ UpIdle
    /\ pgStore = {}
    /\ pgPrev = Null
    /\ pgLast = Null
    /\ cpLast = Pending
    /\ cpEffects = Pending
    /\ OpIdle

\* Any other operation that writes one of a user's keys: storeUserStatus,
\* saveUserProfile, logUserInteraction, createActivity.
KvPut(e) ==
    /\ e \notin pgStore
    /\ pgStore' = pgStore \cup {e}
    /\ pgPrev' = Null
    /\ pgLast' = Null
    /\ UNCHANGED <<clock, relVars, psVars, vrVars, upVars, cpLast, cpEffects, opVars>>

handlePurgeCommand(userId, confirmOption, failList, failKey) ==
    LET r == purgeUserData(userId, pgStore, failList, failKey)
        call == [userId |-> userId, confirm |-> confirmOption]
    IN  /\ pgPrev' = pgLast
        /\ IF userId = Unidentified
           THEN /\ pgLast' = call @@ [called |-> FALSE, threw |-> FALSE,
                                      count |-> 0, failed |-> FALSE,
                                      reply |-> "Error: Could not identify user or access storage."]
                /\ UNCHANGED pgStore
           ELSE IF Confirmed(confirmOption)
           THEN /\ pgStore' = r.store
                /\ pgLast' = call @@ [called |-> TRUE, threw |-> r.threw,
                                      count |-> r.count, failed |-> r.failed,
                                      reply |-> IF r.threw
                                                THEN "An error occurred while purging your data"
                                                ELSE "Successfully purged"]
           ELSE /\ pgLast' = call @@ [called |-> FALSE, threw |-> FALSE,
                                      count |-> 0, failed |-> FALSE,
                                      reply |-> "Purge command requires explicit confirmation."]
                /\ UNCHANGED pgStore
        /\ UNCHANGED <<clock, relVars, psVars, vrVars, upVars, cpLast, cpEffects, opVars>>

\* At most one storage fault during a call: a listing that fails, or one key
\* whose get and delete fail.
Faults ==
    {[list |-> l, key |-> NoKey] : l \in ListFailures}
    \cup {[list |-> 0, key |-> e.name] : e \in KeySpace}

PurgeNext ==
    \/ \E e \in KeySpace : KvPut(e)
    \/ \E userId \in PurgeUsers \cup {Unidentified}, confirmOption \in ConfirmOptions :
          handlePurgeCommand(userId, confirmOption, 0, NoKey)
    \/ \E userId \in PurgeUsers, fault \in Faults :
          handlePurgeCommand(userId, [type |-> "boolean", value |-> "true"],
                             fault.list, fault.key)

SpecPurge == PurgeInit /\ [][PurgeNext]_vars

(***************************************************************************)
(* Claims about purge.                                                      *)
(***************************************************************************)

TwiceInARow ==
    /\ pgPrev # Null /\ pgLast # Null
    /\ pgPrev.called /\ pgLast.called
    /\ pgPrev.userId = pgLast.userId

FirstCountsSecondZero ==
    /\ ~pgPrev.threw /\ pgPrev.count >= 0
    /\ ~pgLast.threw /\ pgLast.count = 0

NothingDeleted == pgStore' = pgStore

HandledWithout(confirms) == pgLast' # Null /\ pgLast'.confirm \in confirms

AsksConfirmation(call) == call.reply = "Purge command requires explicit confirmation."

-----------------------------------------------------------------------------
(* Specification of the pipeline with a completion provider that may never  *)
(* answer.  Every await whose promise settles is resumed, which is the      *)
(* weak fairness of the next-state action.                                  *)

\* callAnthropicAPI / callOpenAIAPI / callOpenRouterAPI await fetch(...) with
\* no signal, and processWithLLM races no timer against the call: when the
\* provider never answers, the await never resumes.
NeverResponds(w) ==
    /\ req[w].pc = "fetched"
    /\ cfg.service \in Providers
    /\ LET previousStatus == req[w].previousStatus
           filteredContext ==
               IF previousStatus # Null
               THEN filterRelevantContext(
                        calculateContextRelevance(previousStatus, clock),
                        cfg.relevanceThreshold)
               ELSE Null
       IN  ~FormatUserInputThrows(filteredContext)
    /\ req' = [req EXCEPT ![w].pc = "awaiting completion"]
    /\ UNCHANGED <<exVars, clock, relVars, psVars, vrVars, cfg, kvHistory, kvLatest,
                   kvProfile, kvActivities, channel, audit>>

HangNext ==
    \/ UpdateNext
    \/ \E w \in Workers : NeverResponds(w)

SpecHang == UpdateInit /\ [][HangNext]_vars /\ WF_vars(HangNext)

\* C18: the completion call is bounded by a request-scoped timeout: an update
\* that has reached its completion call eventually finishes, also when the
\* provider never responds.
C18_CompletionBounded == (req["w1"].pc = "fetched") ~> (req["w1"].pc = "idle")

-----------------------------------------------------------------------------
(***************************************************************************)
(* Message components: the router, the expiration wrapper and the wrapped   *)
(* handlers.                                                                *)
(*                                                                          *)
(* A custom id "action:p1:p2:p3" is [action, params]; a parameter is the    *)
(* record of what its text is made of: "digits" (n is its value),           *)
(* "digits+junk" (digits followed by other characters, n the value of the   *)
(* digits), "junk" (no leading digit), "empty", and "huge" (digits whose    *)
(* value is beyond the range of Date).  Times are in hours.                 *)
(***************************************************************************)

MAX_AGE_HOURS == 24

\* parseInt(timestampStr) and parseInt(timestampStr, 10): the leading digits,
\* NaN without any
parseTimestamp(text) ==
    IF text.kind \in {"digits", "digits+junk", "huge"}
    THEN [nan |-> FALSE, n |-> text.n]
    ELSE NaN

isComponentExpired(params, now) ==
    IF Len(params) < 2 \/ params[2].kind = "empty" \/ parseTimestamp(params[2]) = NaN
    THEN TRUE
    ELSE LET timestamp == parseTimestamp(params[2])
         IN  \* new Date(timestamp) is an Invalid Date beyond the range of
             \* Date: diffHours is NaN and NaN > maxAgeHours is false
             IF params[2].kind = "huge" THEN FALSE
             ELSE now - timestamp.n > MAX_AGE_HOURS

TargetUser == [kind |-> "digits", n |-> 12]

InteractingUser == [kind |-> "digits", n |-> 34]

ActivityParam == [kind |-> "junk", n |-> 0]

Ages == {0, 23, 24, 25}

TimestampParams(now) ==
    {[kind |-> "digits", n |-> now - age] : age \in Ages}
    \cup {[kind |-> "digits+junk", n |-> now - age] : age \in {1, 25}}
    \cup {[kind |-> k, n |-> 0] : k \in {"junk", "empty", "huge"}}

ParamLists(now) ==
    {<<TargetUser>>}
    \cup {<<TargetUser, t>> : t \in TimestampParams(now)}
    \cup {<<TargetUser, t, ActivityParam>> : t \in TimestampParams(now)}

ComponentActions == {"check_in", "join_activity", "react", "show_details", "other"}

\* which of the awaited calls of a handler fails: none, its first or its second
HandlerFaults == {"none", "first", "second"}

NoEffects == [dms |-> {}, logged |-> {}, joined |-> {}]

Logged(effects, type) ==
    [effects EXCEPT !.logged = @ \cup {<<TargetUser.n, InteractingUser.n, type>>}]

handleCheckIn(params, effects, fault) ==
    LET sent == [effects EXCEPT !.dms = @ \cup {<<TargetUser.n, InteractingUser.n>>}]
    IN  IF fault = "first"
        THEN [effects |-> effects, reply |-> "Failed to send check-in notification."]
        ELSE IF fault = "second"
        THEN [effects |-> sent, reply |-> "Failed to send check-in notification."]
        ELSE [effects |-> Logged(sent, "check_in"), reply |-> "You checked in"]

handleJoinActivity(params, effects, fault) ==
    LET joined == [effects EXCEPT !.joined = @ \cup {InteractingUser.n}]
    IN  IF Len(params) < 3
        THEN [effects |-> effects, reply |-> "No activity ID associated with this button."]
        ELSE IF fault = "first"
        THEN [effects |-> effects, reply |-> "Error joining activity"]
        ELSE IF fault = "second"
        THEN [effects |-> joined, reply |-> "Error joining activity"]
        ELSE [effects |-> Logged(joined, "join_activity"), reply |-> "has joined"]

handleQuickReact(params, effects, fault) ==
    IF fault = "first"
    THEN [effects |-> effects, reply |-> "Failed to process reaction"]
    ELSE IF fault = "second"
    THEN [effects |-> Logged(effects, "react_im_in"), reply |-> "Failed to process reaction"]
    ELSE [effects |-> Logged(effects, "react_im_in"), reply |-> "wants to join"]

\* fault "first": there is no latest status of the target user
handleShowDetails(params, effects, fault) ==
    IF fault = "first"
    THEN [effects |-> effects, reply |-> "No status information available"]
    ELSE IF fault = "second"
    THEN [effects |-> effects, reply |-> "An error occurred while retrieving status details."]
    ELSE [effects |-> Logged(effects, "show_details"), reply |-> "Detailed Status"]

HandlerOf(action) ==
    CASE action = "check_in" -> "handleCheckIn"
      [] action = "join_activity" -> "handleJoinActivity"
      [] action = "react" -> "handleQuickReact"
      [] action = "show_details" -> "handleShowDetails"
      [] OTHER -> "none"

Handled(action, params, effects, fault) ==
    CASE action = "check_in" -> handleCheckIn(params, effects, fault)
      [] action = "join_activity" -> handleJoinActivity(params, effects, fault)
      [] action = "react" -> handleQuickReact(params, effects, fault)
      [] action = "show_details" -> handleShowDetails(params, effects, fault)

withExpirationCheck(action, params, effects, fault, now) ==
    IF isComponentExpired(params, now)
    THEN [handler |-> "none", effects |-> effects,
          reply |-> "This interaction has expired."]
    ELSE [handler |-> HandlerOf(action)] @@ Handled(action, params, effects, fault)

ComponentInit ==
    /\ clock \in {25, 30}
    /\ RelIdle
    /\ PsIdle
    /\ VrIdle
    /\ UpIdle
    /\ pgStore = Pending
    /\ pgPrev = Pending
    /\ pgLast = Pending
    /\ cpLast = Null
    /\ cpEffects = NoEffects
    /\ OpIdle

handleComponentInteraction(action, params, fault) ==
    LET r == IF HandlerOf(action) = "none"
             THEN [handler |-> "none", effects |-> cpEffects,
                   reply |-> "Unknown component action"]
             ELSE withExpirationCheck(action, params, cpEffects, fault, clock)
    IN  /\ cpLast' = [action |-> action, params |-> params, now |-> clock,
                      handler |-> r.handler, reply |-> r.reply]
        /\ cpEffects' = r.effects
        /\ UNCHANGED <<clock, relVars, psVars, vrVars, upVars, pgStore, pgPrev, pgLast, opVars>>

ComponentNext ==
    \E action \in ComponentActions, params \in ParamLists(clock),
       fault \in HandlerFaults :
        handleComponentInteraction(action, params, fault)

SpecComponent == ComponentInit /\ [][ComponentNext]_vars

(***************************************************************************)
(* Claims about component expiration.                                       *)
(***************************************************************************)

Routed(call) == HandlerOf(call.action) # "none"

TimestampMissing(call) == Len(call.params) < 2 \/ call.params[2].kind = "empty"

TimestampNotNumeric(call) ==
    Len(call.params) >= 2 /\ call.params[2].kind \in {"junk", "digits+junk"}

TimestampAge(call) == call.now - call.params[2].n

TimestampOld(call) ==
    /\ Len(call.params) >= 2 /\ call.params[2].kind = "digits"
    /\ TimestampAge(call) > MAX_AGE_HOURS

TimestampFresh(call) ==
    /\ Len(call.params) >= 2 /\ call.params[2].kind = "digits"
    /\ TimestampAge(call) <= MAX_AGE_HOURS

\* C19: a component interaction whose custom-id timestamp is more than 24
\* hours old, missing or not numeric never reaches its handler (nothing is
\* sent, logged or joined); one exactly 24 hours old or younger is passed to
\* its handler.
C19_ExpiredNeverHandled ==
    [][/\ (TimestampOld(cpLast') \/ TimestampMissing(cpLast')
              \/ TimestampNotNumeric(cpLast'))
          => cpLast'.handler = "none" /\ cpEffects' = cpEffects
       /\ Routed(cpLast') /\ TimestampFresh(cpLast')
          => cpLast'.handler = HandlerOf(cpLast'.action)]_vars

-----------------------------------------------------------------------------
(* Specification of the state tracker on states that may carry a            *)
(* time_since_last, supplied by the completion or kept from the previous    *)
(* entry.                                                                   *)

TimedNames == {"Hunger", "Thirst"}

TimedLengths == {0, 1, 2}

PrevTimes == {[text |-> "4h ago"], [text |-> "just now"], EmptyText}

CurTimes == {[text |-> "30m ago"], [text |-> "just now"], EmptyText}

TimedStates(times) ==
    {[name |-> n, level |-> [numeric |-> TRUE, tenths |-> 20]] : n \in TimedNames}
    \cup {[name |-> n, level |-> [numeric |-> TRUE, tenths |-> 20],
           time_since_last |-> t] : n \in TimedNames, t \in times}

TimedSeqs(times) == UNION {[1..k -> TimedStates(times)] : k \in TimedLengths}

TimesInit ==
    /\ clock \in {1, 5}
    /\ ExIdle
    /\ RelIdle
    /\ psPrev \in
         {[timestamp |-> [kind |-> "iso", t |-> 0], raw_input |-> "text",
           processed_status |-> [overall_status |-> "ok", personal_states |-> ps]] :
            ps \in TimedSeqs(PrevTimes)}
    /\ psNew \in
         {[overall_status |-> "ok", personal_states |-> cs] :
            cs \in TimedSeqs(CurTimes)}
    /\ psOut = Pending
    /\ VrIdle
    /\ UpIdle

SpecTimes == TimesInit /\ [][TrackerNext]_vars

\* the states of the previous entry, of the completion, and of the result
TimedPrev == psPrev.processed_status.personal_states

TimedCur == psNew.personal_states

TimedOut == psOut.personal_states

\* the previous state a current state is matched with, or Null
Matched(i) == PrevStateGet(TimedPrev, TimedCur[i].name)

Gap == getTimeSinceUpdate(psPrev.timestamp, clock)

\* C21: when a matched current state omits time_since_last and the previous
\* state had a value, the result carries a time derived from both the
\* previous value and the gap since the previous entry; it is "just now"
\* only when the completion itself supplied "just now".
C21_TimeDerived ==
    Tracked =>
      \A i \in DOMAIN TimedCur :
        (/\ Matched(i) # Null
         /\ OmitsTime(TimedCur[i])
         /\ ~OmitsTime(Matched(i))) =>
           /\ Has(TimedOut[i], "time_since_last")
           /\ TimedOut[i].time_since_last # Matched(i).time_since_last
           /\ TimedOut[i].time_since_last # [text |-> "just now"]

SuppliesTime(state) ==
    Has(state, "time_since_last") /\ state.time_since_last # EmptyText

\* C22: a current state that supplies a non-empty time_since_last keeps
\* exactly that value, with or without a same-named previous state and
\* whatever the previous value and the gap are; when neither the current nor
\* the previous state has a value, the field is left as the completion gave
\* it, without a value.
C22_SuppliedTimeVerbatim ==
    Tracked =>
      \A i \in DOMAIN TimedCur :
        /\ SuppliesTime(TimedCur[i]) =>
              /\ Has(TimedOut[i], "time_since_last")
              /\ TimedOut[i].time_since_last = TimedCur[i].time_since_last
        /\ (/\ ~SuppliesTime(TimedCur[i])
            /\ Matched(i) = Null \/ ~SuppliesTime(Matched(i))) =>
              /\ ~SuppliesTime(TimedOut[i])
              /\ Has(TimedOut[i], "time_since_last")
                    <=> Has(TimedCur[i], "time_since_last")

C22_Witness ==
    /\ Tracked
    /\ clock = 5
    /\ Len(TimedCur) = 2
    /\ Matched(1) # Null
    /\ SuppliesTime(Matched(1))
    /\ Matched(1).time_since_last = [text |-> "4h ago"]
    /\ SuppliesTime(TimedCur[1])
    /\ TimedCur[1].time_since_last = [text |-> "30m ago"]
    /\ TimedOut[1].time_since_last = [text |-> "30m ago"]
    /\ Matched(2) # Null
    /\ ~Has(Matched(2), "time_since_last")
    /\ ~Has(TimedCur[2], "time_since_last")
    /\ ~Has(TimedOut[2], "time_since_last")

\* the names of an array of states, in order; the empty string for an entry
\* without a name
NamesOf(states) ==
    [i \in DOMAIN states |->
        IF Has(states[i], "name") THEN states[i].name ELSE ""]

\* C23: the result of updatePersonalStateTimes has the length of the current
\* array and the same names in the same order: a state found only in the
\* previous entry never appears, and no current state is removed or
\* duplicated.
C23_CurrentStatesOnly ==
    Tracked =>
      /\ Len(TimedOut) = Len(TimedCur)
      /\ NamesOf(TimedOut) = NamesOf(TimedCur)

C23_Witness ==
    /\ Tracked
    /\ Len(TimedPrev) = 2
    /\ Len(TimedCur) = 2
    /\ TimedPrev[1].name = "Thirst"
    /\ TimedPrev[2].name = "Hunger"
    /\ SuppliesTime(TimedPrev[1])
    /\ NamesOf(TimedCur) = <<"Hunger", "Hunger">>
    /\ NamesOf(TimedOut) = <<"Hunger", "Hunger">>

-----------------------------------------------------------------------------
(* Specification of the relevance model and the filter on one previous      *)
(* entry, read at any distance before or after its timestamp and filtered   *)
(* at any threshold.                                                        *)

DecayClock == 40

DecayHours == {0, 5, 7, 13, 30, 40}

DecayThresholds ==
    {[num |-> TRUE, v |-> 0], [num |-> TRUE, v |-> 1],
     [num |-> TRUE, v |-> DefaultThreshold],
     [num |-> TRUE, v |-> (85 * Scale) \div 100], [num |-> TRUE, v |-> Scale]}

DecayHighlights ==
    {[type |-> t, description |-> "Need coffee"] :
        t \in {"activity", "need", "achievement", "blocker"}}

DecaySnapshots ==
    {[overall_status |-> "ok",
      personal_states |-> <<[name |-> "Hunger", level |-> [numeric |-> TRUE, tenths |-> 20]]>>,
      metrics |-> ms, highlights |-> hs, persistent_context |-> cs] :
        ms \in SeqsUpTo(Metrics, 2),
        hs \in SeqsUpTo(DecayHighlights, 1),
        cs \in SeqsUpTo(ContextItems, 1)}

DecayInit ==
    /\ clock = DecayClock
    /\ ctxPrev \in {[timestamp |-> [kind |-> "iso", t |-> t], raw_input |-> "text",
                     processed_status |-> s] :
                        t \in {DecayClock - d : d \in DecayHours}
                              \cup {DecayClock + d : d \in DecayHours},
                        s \in DecaySnapshots}
    /\ ctxThreshold \in DecayThresholds
    /\ ctxScored = Pending
    /\ ctxFiltered = Pending
    /\ ExIdle
    /\ PsIdle
    /\ VrIdle
    /\ UpIdle

\* mutant of ScoreOnce: the scores are written into, and the dropped items
\* spliced out of, the entry that was read
ScoreOnceInPlace ==
    /\ ctxScored = Pending
    /\ ctxScored' = calculateContextRelevance(ctxPrev, clock)
    /\ ctxFiltered' = filterRelevantContext(ctxScored', ctxThreshold)
    /\ ctxPrev' = ctxFiltered'
    /\ UNCHANGED <<exVars, clock, ctxThreshold, psVars, vrVars, upVars>>

\* processStatusUpdate step 3 on the entry read from storage
ScoreOnce ==
    /\ ctxScored = Pending
    /\ ctxScored' = calculateContextRelevance(ctxPrev, clock)
    /\ ctxFiltered' = filterRelevantContext(ctxScored', ctxThreshold)
    /\ UNCHANGED <<exVars, ctxPrev, clock, ctxThreshold, psVars, vrVars, upVars>>

DecayNext == ScoreOnce

SpecDecay == DecayInit /\ [][DecayNext]_vars

DecayDone == ctxScored # Pending /\ ctxScored # Null

\* the scored items of the metrics and highlights, with their category
Categorised ==
    {[item |-> ctxScored.processed_status.metrics[i], field |-> "metrics",
      category |-> MetricType(ctxScored.processed_status.metrics[i])] :
        i \in DOMAIN ctxScored.processed_status.metrics}
    \cup
    {[item |-> ctxScored.processed_status.highlights[i], field |-> "highlights",
      category |-> HighlightType(ctxScored.processed_status.highlights[i])] :
        i \in DOMAIN ctxScored.processed_status.highlights}

Retained(c) ==
    \E j \in DOMAIN ctxFiltered.processed_status[c.field] :
        ctxFiltered.processed_status[c.field][j] = c.item

\* C24: physical items are dropped first and activity items last: whenever
\* the filter retains a physical metric it retains every metric and
\* highlight of every other category of the same snapshot, and whenever it
\* retains an item of any category it retains every activity item.
C24_PhysicalFirstActivityLast ==
    DecayDone =>
      \A c \in Categorised, o \in Categorised :
        /\ (c.field = "metrics" /\ c.category = "physical" /\ Retained(c)
            /\ o.category # "physical") => Retained(o)
        /\ (Retained(c) /\ o.category = "activity") => Retained(o)

\* the entry with its timestamp reflected to the other side of the clock
Mirrored(entry) == [entry EXCEPT !.timestamp.t = 2 * clock - @]

\* C25: every relevance_score attached by calculateContextRelevance lies in
\* [0,1], and the elapsed time is the unsigned difference between the clock
\* and the timestamp: an entry timestamped d hours in the future gets the
\* scores of the same entry timestamped d hours in the past.
C25_ScoresUnsigned ==
    DecayDone =>
      /\ \A f \in ScoredArrays :
           \A i \in DOMAIN ctxScored.processed_status[f] :
             /\ Has(ctxScored.processed_status[f][i], "relevance_score")
             /\ ctxScored.processed_status[f][i].relevance_score \in 0..Scale
      /\ calculateContextRelevance(Mirrored(ctxPrev), clock).processed_status
           = ctxScored.processed_status

C25_Witness ==
    /\ DecayDone
    /\ ctxPrev.timestamp.t = clock + 7
    /\ Len(ctxScored.processed_status.metrics) = 2
    /\ ctxScored.processed_status.metrics[1].relevance_score \in 1..(Scale - 1)
    /\ ctxScored.processed_status.metrics[2].relevance_score
         # ctxScored.processed_status.metrics[1].relevance_score
    /\ Len(ctxScored.processed_status.highlights) = 1

\* C26: filterRelevantContext with a threshold that is not a number, or a
\* number outside [0,1], returns what it returns with the threshold 0.3.
C26_InvalidThresholdIsDefault ==
    (FilterDone /\ ~ValidThreshold) =>
      ctxFiltered = filterRelevantContext(ctxScored,
                                          [num |-> TRUE, v |-> DefaultThreshold])

\* a threshold above 1, an item scored exactly 0.3 retained and an item
\* scored just below 0.3 dropped
C26_Witness ==
    /\ FilterDone
    /\ ctxThreshold = [num |-> TRUE, v |-> Scale + 1]
    /\ Len(ctxScored.processed_status.metrics) = 2
    /\ Has(ctxScored.processed_status.metrics[1], "relevance_score")
    /\ ctxScored.processed_status.metrics[1].relevance_score = DefaultThreshold
    /\ Has(ctxScored.processed_status.metrics[2], "relevance_score")
    /\ ctxScored.processed_status.metrics[2].relevance_score = DefaultThreshold - 1
    /\ ctxFiltered.processed_status.metrics = <<ctxScored.processed_status.metrics[1]>>

\* the fields of a record other than those in the set given
OtherFields(o, fields) == [k \in (DOMAIN o) \ fields |-> o[k]]

\* C27: calculateContextRelevance and filterRelevantContext do not mutate
\* what they are given: the entry read from storage is the same after both
\* have run, the scored entry differs from it, and the filtered result from
\* the scored entry, only in the metrics, highlights and persistent_context
\* arrays.
C27_InputsUntouched ==
    /\ [][ctxPrev' = ctxPrev]_vars
    /\ [](DecayDone =>
            /\ OtherFields(ctxScored, {"processed_status"})
                 = OtherFields(ctxPrev, {"processed_status"})
            /\ OtherFields(ctxScored.processed_status, ScoredArrays)
                 = OtherFields(ctxPrev.processed_status, ScoredArrays)
            /\ OtherFields(ctxFiltered, {"processed_status"})
                 = OtherFields(ctxScored, {"processed_status"})
            /\ OtherFields(ctxFiltered.processed_status, ScoredArrays)
                 = OtherFields(ctxScored.processed_status, ScoredArrays))

C27_Witness ==
    /\ DecayDone
    /\ ctxScored.processed_status.metrics # ctxPrev.processed_status.metrics
    /\ ctxFiltered.processed_status.metrics # ctxScored.processed_status.metrics
    /\ ctxFiltered.processed_status.highlights # ctxScored.processed_status.highlights
    /\ Len(ctxFiltered.processed_status.persistent_context) = 1
    /\ Has(ctxFiltered.processed_status, "personal_states")

-----------------------------------------------------------------------------
(* Specification of the completion: processWithLLM on whatever the provider *)
(* answers, without prior context.                                          *)

CompletionResponses ==
    {[kind |-> k, text |-> <<>>] : k \in {"network", "http", "nocontent"}}
    \cup {[kind |-> "json", text |-> t] : t \in SeqsUpTo(Tokens, MaxLen)}

CompletionInit ==
    /\ clock = 0
    /\ ExIdle
    /\ RelIdle
    /\ PsIdle
    /\ vrText \in CompletionResponses
    /\ vrResult = Pending
    /\ UpIdle

CompletionStep ==
    /\ vrResult = Pending
    /\ vrResult' = processWithLLM(<<"feeling tired">>, "anthropic", Null, vrText,
                                  SamplePayload)
    /\ UNCHANGED <<exVars, clock, relVars, psVars, vrText, upVars>>

CompletionNext == CompletionStep

SpecCompletion == CompletionInit /\ [][CompletionNext]_vars

EmptyCompletion(response) == response.kind = "json" /\ response.text = <<>>

\* what the pipeline makes of a response
SnapshotFor(response) ==
    processWithLLM(<<"feeling tired">>, "anthropic", Null, response, SamplePayload)

\* C28: an empty completion text yields the fallback snapshot with a single
\* errors entry that identifies the empty response: no response of another
\* kind (transport failure, body without content, malformed JSON, no JSON)
\* yields the same entry.
C28_EmptyResponseKind ==
    (vrResult # Pending /\ EmptyCompletion(vrText)) =>
      /\ IsFallback(vrResult)
      /\ Len(vrResult.errors) = 1
      /\ \A r \in CompletionResponses :
           (~EmptyCompletion(r) /\ IsFallback(SnapshotFor(r))) =>
              SnapshotFor(r).errors # vrResult.errors

-----------------------------------------------------------------------------
(* Specification of the display overrides: whole processStatusUpdate        *)
(* requests of a user whose stored profile may carry custom emojis          *)

\* the custom_emojis map of the stored profile: the mood and two state names
CustomEmojis ==
    [name \in {"mood", "energy", "hunger"} |->
        CASE name = "mood" -> "custom-mood"
          [] name = "energy" -> "custom-energy"
          [] OTHER -> "custom-hunger"]

\* a profile stored earlier by the profile command
CustomProfile ==
    [DEFAULT_PROFILE EXCEPT !.custom_emojis = CustomEmojis,
                            !.created_at = [kind |-> "iso", t |-> 0],
                            !.updated_at = [kind |-> "iso", t |-> 0]]

OverrideInit ==
    /\ clock = 0
    /\ ExIdle
    /\ RelIdle
    /\ PsIdle
    /\ VrIdle
    /\ cfg \in [historyLimit : {1}, service : {"anthropic"},
                channelId : {"status-channel"},
                relevanceThreshold : {[num |-> TRUE, v |-> DefaultThreshold]}]
    /\ kvHistory = Null
    /\ kvLatest = Null
    /\ kvProfile \in {Null, CustomProfile}
    /\ kvActivities = <<>>
    /\ channel = <<>>
    /\ req = [w \in {"w1"} |-> IdleWorker]
    /\ audit = [started |-> 0, returned |-> <<>>, overlap |-> FALSE,
                failed |-> FALSE, evicted |-> FALSE]

SpecOverride == OverrideInit /\ [][UpdateNext]_vars

CustomValues == {CustomEmojis[name] : name \in DOMAIN CustomEmojis}

\* the snapshot carries something only the display step writes
Overridden(statusData) ==
    \/ Has(statusData, "activity_id")
    \/ Has(statusData, "mood_emoji") /\ statusData.mood_emoji \in CustomValues
    \/ \E i \in DOMAIN ArrayOrEmpty(statusData, "metrics") :
          /\ Has(statusData.metrics[i], "icon")
          /\ statusData.metrics[i].icon \in CustomValues
    \/ \E i \in DOMAIN ArrayOrEmpty(statusData, "personal_states") :
          /\ Has(statusData.personal_states[i], "emoji")
          /\ statusData.personal_states[i].emoji \in CustomValues

StoredEntries ==
    {HistoryOf(kvHistory)[i] : i \in DOMAIN HistoryOf(kvHistory)}
        \cup (IF kvLatest = Null THEN {} ELSE {kvLatest})

\* C29: what a status update persists is the trend-reconciled snapshot the
\* request held before the profile was read: every write of the history or
\* of the latest key stores that snapshot, no stored entry carries a custom
\* emoji or an activity_id, and neither does the prior context a later
\* update reads
C29_StoredBeforeOverrides ==
    /\ [][\A w \in Workers :
             /\ (kvHistory' # kvHistory /\ req[w].pc = "read") =>
                   LET history == kvHistory'.history IN
                   history[Len(history)].processed_status = req[w].newStatusData
             /\ (kvLatest' # kvLatest) =>
                   kvLatest'.processed_status = req[w].newStatusData]_vars
    /\ [](/\ \A entry \in StoredEntries : ~Overridden(entry.processed_status)
          /\ \A w \in Workers :
                req[w].previousStatus # Null =>
                    ~Overridden(req[w].previousStatus.processed_status))

\* a message with the custom mood emoji and a join button was posted, the
\* entry of that update is stored, and a later update has read it as its
\* prior context
C29_Witness ==
    /\ \E i \in DOMAIN channel :
          channel[i].title = "custom-mood" /\ channel[i].join_activity
    /\ kvLatest # Null
    /\ kvActivities # <<>>
    /\ req["w1"].previousStatus # Null

-----------------------------------------------------------------------------
(* Specification of the history over time: overlapping storeUserStatus      *)
(* calls on a store that already holds entries of earlier updates           *)

\* the clock when the calls start; the earlier entries were stored before
HistoryStart == 2

\* entries stored by earlier updates, oldest first
EarlierEntries ==
    <<[timestamp |-> [kind |-> "iso", t |-> 1],
       raw_input |-> "feeling fine",
       processed_status |->
           createDefaultStatus("feeling fine", <<"LLM returned empty response.">>)],
      [timestamp |-> [kind |-> "iso", t |-> 2],
       raw_input |-> "going for a walk",
       processed_status |-> UpdatePayload]>>

HistoryInit ==
    /\ clock = HistoryStart
    /\ ExIdle
    /\ RelIdle
    /\ PsIdle
    /\ VrIdle
    /\ cfg \in [historyLimit : {0, Len(EarlierEntries)}, service : {"anthropic"},
                channelId : {"status-channel"},
                relevanceThreshold : {[num |-> TRUE, v |-> DefaultThreshold]}]
    /\ kvHistory = [history |-> EarlierEntries]
    /\ kvLatest = EarlierEntries[Len(EarlierEntries)]
    /\ kvProfile = Null
    /\ kvActivities = <<>>
    /\ channel = <<>>
    /\ req = [w \in {"w1", "w2"} |-> IdleWorker]
    /\ audit = [started |-> 0, returned |-> <<>>, overlap |-> FALSE,
                failed |-> FALSE, evicted |-> FALSE]

SpecHistory == HistoryInit /\ [][StoreNext]_vars

IsSuffixOf(kept, history) ==
    /\ Len(kept) <= Len(history)
    /\ kept = SubSeq(history, Len(history) - Len(kept) + 1, Len(history))

\* the positions of the stored history that hold an entry stamped t
StampedAt(history, t) ==
    {i \in DOMAIN history :
        Has(history[i], "timestamp") /\ history[i].timestamp.t = t}

Stamps(history) ==
    {history[i].timestamp.t : i \in {j \in DOMAIN history :
                                        Has(history[j], "timestamp")}}

\* C30: entries are never changed after they were appended. A call reads
\* the stored history as it is; what it writes back is entries it read,
\* field for field and in the order read, followed by its new entry; and
\* from one stored history to the next every entry present in both has the
\* same timestamp, raw_input and processed_status and stands in the same
\* order relative to the others present in both.
C30_EntriesImmutable ==
    [][/\ \A w \in Workers :
             /\ (req[w].pc = "idle" /\ req'[w].pc = "read") =>
                   req'[w].history = Stored
             /\ (req[w].pc = "read" /\ req'[w].pc = "historyStored") =>
                   /\ Stored' # <<>>
                   /\ IsSuffixOf(SubSeq(Stored', 1, Len(Stored') - 1),
                                 req[w].history)
       /\ kvHistory' # kvHistory =>
             LET both == Stamps(Stored) \cap Stamps(Stored') IN
             \A t \in both :
                 \A i \in StampedAt(Stored, t) : \A j \in StampedAt(Stored', t) :
                     /\ Stored'[j] = Stored[i]
                     /\ \A u \in both :
                           \A k \in StampedAt(Stored, u) :
                               \A l \in StampedAt(Stored', u) :
                                   (k < i) = (l < j)]_vars

\* overlapping calls have stored, and the history still holds the oldest
\* entry of the earlier updates ahead of at least two entries of these calls
C30_Witness ==
    /\ audit.overlap
    /\ Len(Stored) >= 3
    /\ Stored[1] = EarlierEntries[1]
    /\ Stored[Len(Stored) - 1].timestamp.t > HistoryStart
    /\ Stored[Len(Stored) - 1].raw_input # Stored[1].raw_input

-----------------------------------------------------------------------------
(* Properties of a failed store *)

\* the step in which storeUserStatus returns null to worker w after it read
\* the history
ReturnsNull(w) ==
    /\ req[w].pc \in {"read", "historyStored"}
    /\ req'[w].pc = "stored"
    /\ req'[w].storedStatusEntry = Null

\* C31: storeUserStatus is all-or-nothing: when it returns null the latest
\* pointer is the one from before the call and the stored history does not
\* hold the entry the call built (timestamps tell the entries of different
\* calls apart), so the history is the one from before the call as well.
C31_NullLeavesStoreAlone ==
    [][\A w \in Workers :
          ReturnsNull(w) =>
             /\ kvLatest' = kvLatest
             /\ kvHistory' = kvHistory
             /\ req[w].newStatusEntry # Null =>
                   Occurrences(Stored', req[w].newStatusEntry) = 0]_vars

-----------------------------------------------------------------------------
(* Properties of the frame of a purge *)

\* the entry holds data of user userId: one of the user's own keys, or an
\* activity the user created
BelongsTo(e, userId) ==
    \/ e.name \in {LatestKey(userId), ProfileKey(userId), InteractionLogKey(userId)}
    \/ e.creator = userId

\* C32: purgeUserData(u) deletes only data belonging to u: every key a purge
\* removes is one of u's own keys or an activity u created, also when
\* another user's id has u's id as a prefix.
C32_PurgeDeletesOwnDataOnly ==
    [][\A e \in pgStore \ pgStore' : BelongsTo(e, pgLast'.userId)]_vars

-----------------------------------------------------------------------------
(* Specification of the profile commands: updateUserProfile and             *)
(* setCustomEmoji on the profile of one user.  Every kvStore.get and        *)
(* kvStore.put of a call may fail.                                          *)

MaxProfileCalls == 3

\* the updates of the profile command: a path and the value to set
ProfileUpdates ==
    <<[path |-> <<"timezone">>, value |-> [tz |-> "Europe/Paris"]],
      [path |-> <<"preferences", "theme">>, value |-> "dark"],
      [path |-> <<"preferences", "visibility">>, value |-> "private"]>>

EmojiStateNames == {"Mood", "Energy"}

\* the emoji argument: an emoji, or the empty string that unsets
EmojiArgs == {"sun", ""}

Remove(o, k) == [f \in (DOMAIN o) \ {k} |-> o[f]]

\* getUserProfile: the profile returned and what is stored afterwards.  A
\* failed get or put is caught and answered with the defaults.
getUserProfile(store, now, getFails, putFails) ==
    IF getFails THEN [profile |-> DEFAULT_PROFILE, store |-> store]
    ELSE IF store = Null
    THEN IF putFails THEN [profile |-> DEFAULT_PROFILE, store |-> store]
         ELSE [profile |-> LoadedProfile(Null, now),
               store |-> LoadedProfile(Null, now)]
    ELSE [profile |-> LoadedProfile(store, now), store |-> store]

\* the forEach of updateUserProfile for one path of one or two keys
ApplyUpdate(profile, path, value) ==
    IF Len(path) = 1 THEN Put(profile, path[1], value)
    ELSE Put(profile, path[1],
             Put(IF Has(profile, path[1]) THEN profile[path[1]] ELSE <<>>,
                 path[2], value))

\* the profile setCustomEmoji builds from the one it read
ApplyEmoji(profile, stateName, emoji) ==
    LET stateKey == toLowerCase(stateName)
        emojis == IF Has(profile, "custom_emojis") THEN profile.custom_emojis
                  ELSE <<>>
    IN  Put(profile, "custom_emojis",
            IF emoji # "" THEN Put(emojis, stateKey, emoji)
            ELSE Remove(emojis, stateKey))

ProfileInit ==
    /\ clock = 0
    /\ RelIdle
    /\ PsIdle
    /\ VrIdle
    /\ cfg = Pending /\ kvHistory = Pending /\ kvLatest = Pending
    /\ kvActivities = Pending /\ channel = Pending /\ req = Pending
    /\ audit = Pending
    /\ pgStore = Pending /\ pgPrev = Pending /\ pgLast = Pending
    /\ cpLast = Pending /\ cpEffects = Pending
    /\ AfIdle /\ AcIdle /\ IxIdle /\ TpIdle
    /\ kvProfile = Null
    /\ prLast = Null

\* a call that reads the profile, changes it and writes it back
ProfileCall(op, target, changed, read, writeFails) ==
    /\ clock < MaxProfileCalls
    /\ clock' = clock + 1
    /\ kvProfile' = IF writeFails THEN read.store
                    ELSE Put(changed, "updated_at", [kind |-> "iso", t |-> clock'])
    /\ prLast' = [op |-> op, target |-> target, now |-> clock',
                  ok |-> ~writeFails]
    /\ UNCHANGED <<relVars, psVars, vrVars, cfg, kvHistory, kvLatest, kvActivities,
                   channel, req, audit, pgStore, pgPrev, pgLast, cpLast, cpEffects,
                   afVars, acVars, ixVars, tpVars>>

updateUserProfile(update, getFails, putFails, writeFails) ==
    LET read == getUserProfile(kvProfile, clock + 1, getFails, putFails) IN
    ProfileCall("updateUserProfile", update.path,
                ApplyUpdate(read.profile, update.path, update.value),
                read, writeFails)

setCustomEmoji(stateName, emoji, getFails, putFails, writeFails) ==
    LET read == getUserProfile(kvProfile, clock + 1, getFails, putFails) IN
    ProfileCall("setCustomEmoji", <<"custom_emojis", toLowerCase(stateName)>>,
                ApplyEmoji(read.profile, stateName, emoji),
                read, writeFails)

ProfileNext ==
    \E getFails \in BOOLEAN, putFails \in BOOLEAN, writeFails \in BOOLEAN :
        \/ \E i \in DOMAIN ProfileUpdates :
               updateUserProfile(ProfileUpdates[i], getFails, putFails, writeFails)
        \/ \E stateName \in EmojiStateNames, emoji \in EmojiArgs :
               setCustomEmoji(stateName, emoji, getFails, putFails, writeFails)

SpecProfile == ProfileInit /\ [][ProfileNext]_vars

\* the value stored at a path of one or two keys, Null when nothing is
ValueAt(profile, path) ==
    IF ~Has(profile, path[1]) THEN Null
    ELSE IF Len(path) = 1 THEN profile[path[1]]
    ELSE IF Has(profile[path[1]], path[2])
         THEN [value |-> profile[path[1]][path[2]]]
         ELSE Null

\* the stored fields a call may leave alone: the preferences, the timezone,
\* the custom emojis of the state names and created_at
ProfilePaths ==
    {<<"timezone">>, <<"created_at">>, <<"preferences", "theme">>,
     <<"preferences", "visibility">>, <<"custom_emojis", "mood">>,
     <<"custom_emojis", "energy">>}

\* C33: updateUserProfile and setCustomEmoji change only the targeted field
\* (plus updated_at): after a call that reports success on a stored profile,
\* every other stored field has the value it had in storage before the
\* call, also when the read inside the call failed.
C33_OnlyTargetChanges ==
    [][(prLast' # prLast /\ prLast'.ok /\ kvProfile # Null) =>
          \A path \in ProfilePaths \ {prLast'.target} :
              ValueAt(kvProfile', path) = ValueAt(kvProfile, path)]_vars

-----------------------------------------------------------------------------
(* Specification of what follows a purge: each user's status update runs    *)
(* in steps, at every await, next to purges and to other users' clicks on   *)
(* the user's status message.                                               *)

HistoryKey(userId) == <<"user:">> \o userId \o <<":", "status_history">>

TemplatesKey(userId) == <<"user:">> \o userId \o <<":", "templates">>

\* the keys that hold data of the user
UserKeys(userId) ==
    {HistoryKey(userId), LatestKey(userId), TemplatesKey(userId),
     ProfileKey(userId), InteractionLogKey(userId)}

Stores(name) == \E e \in pgStore : e.name = name

\* kvStore.put of a key: an entry without a creator field
PutKey(store, name) ==
    {e \in store : e.name # name} \cup {[name |-> name, creator |-> <<>>]}

AfterPurgeInit ==
    /\ clock = 0
    /\ RelIdle
    /\ PsIdle
    /\ VrIdle
    /\ UpIdle
    /\ cpLast = Pending /\ cpEffects = Pending
    /\ PrIdle /\ AcIdle /\ IxIdle /\ TpIdle
    /\ pgStore = {}
    /\ pgPrev = Null
    /\ pgLast = Null
    /\ pgFlight = [u \in PurgeUsers |-> "idle"]
    /\ pgDone = {}

AfterPurgeFrame ==
    UNCHANGED <<clock, relVars, psVars, vrVars, upVars, pgPrev, pgLast, cpLast,
                cpEffects, prVars, acVars, ixVars, tpVars>>

\* the user sends a status update: processStatusUpdate up to the completion
BeginUpdate(userId) ==
    /\ pgFlight[userId] = "idle"
    /\ pgFlight' = [pgFlight EXCEPT ![userId] = "fetched"]
    /\ pgDone' = pgDone \ {userId}
    /\ UNCHANGED pgStore
    /\ AfterPurgeFrame

\* storeUserStatus: the put of the history key
PutStatusHistory(userId, kvFails) ==
    /\ pgFlight[userId] = "fetched"
    /\ IF kvFails
       THEN /\ pgFlight' = [pgFlight EXCEPT ![userId] = "stored"]
            /\ UNCHANGED pgStore
       ELSE /\ pgFlight' = [pgFlight EXCEPT ![userId] = "historyStored"]
            /\ pgStore' = PutKey(pgStore, HistoryKey(userId))
    /\ UNCHANGED pgDone
    /\ AfterPurgeFrame

\* storeUserStatus: the put of the latest key
PutStatusLatest(userId, kvFails) ==
    /\ pgFlight[userId] = "historyStored"
    /\ pgFlight' = [pgFlight EXCEPT ![userId] = "stored"]
    /\ pgStore' = IF kvFails THEN pgStore ELSE PutKey(pgStore, LatestKey(userId))
    /\ UNCHANGED pgDone
    /\ AfterPurgeFrame

\* getUserProfile on the namespace: a profile that is absent is created
ProfileTouched(store, userId, kvFails) ==
    IF kvFails \/ (\E e \in store : e.name = ProfileKey(userId)) THEN store
    ELSE PutKey(store, ProfileKey(userId))

\* logUserInteraction on the namespace
InteractionLogged(store, targetUserId, kvFails) ==
    IF kvFails THEN store ELSE PutKey(store, InteractionLogKey(targetUserId))

\* processStatusUpdate step 5b, and the rest of the request
ReadProfile(userId, kvFails) ==
    /\ pgFlight[userId] = "stored"
    /\ pgFlight' = [pgFlight EXCEPT ![userId] = "idle"]
    /\ pgStore' = ProfileTouched(pgStore, userId, kvFails)
    /\ UNCHANGED pgDone
    /\ AfterPurgeFrame

\* /status purge confirm:true by the user, with storage answering
PurgeReturns(userId) ==
    /\ pgStore' = purgeUserData(userId, pgStore, 0, NoKey).store
    /\ pgDone' = pgDone \cup {userId}
    /\ UNCHANGED pgFlight
    /\ AfterPurgeFrame

\* another user presses a button of the target's status message
ClickShowDetails(targetUserId, profileFails, logFails) ==
    /\ pgStore' =
          LET touched == ProfileTouched(pgStore, targetUserId, profileFails) IN
          IF Stores(LatestKey(targetUserId))
          THEN InteractionLogged(touched, targetUserId, logFails)
          ELSE touched
    /\ pgStore' # pgStore
    /\ UNCHANGED <<pgFlight, pgDone>>
    /\ AfterPurgeFrame

ClickCheckIn(targetUserId, logFails) ==
    /\ pgStore' = InteractionLogged(pgStore, targetUserId, logFails)
    /\ pgStore' # pgStore
    /\ UNCHANGED <<pgFlight, pgDone>>
    /\ AfterPurgeFrame

ClickQuickReact(targetUserId, logFails) ==
    /\ pgStore' = InteractionLogged(pgStore, targetUserId, logFails)
    /\ pgStore' # pgStore
    /\ UNCHANGED <<pgFlight, pgDone>>
    /\ AfterPurgeFrame

AfterPurgeNext ==
    \E userId \in PurgeUsers :
        \/ BeginUpdate(userId)
        \/ \E kvFails \in BOOLEAN : PutStatusHistory(userId, kvFails)
        \/ \E kvFails \in BOOLEAN : PutStatusLatest(userId, kvFails)
        \/ \E kvFails \in BOOLEAN : ReadProfile(userId, kvFails)
        \/ PurgeReturns(userId)
        \/ \E profileFails \in BOOLEAN, logFails \in BOOLEAN :
               ClickShowDetails(userId, profileFails, logFails)
        \/ \E logFails \in BOOLEAN : ClickCheckIn(userId, logFails)
        \/ \E logFails \in BOOLEAN : ClickQuickReact(userId, logFails)

SpecAfterPurge == AfterPurgeInit /\ [][AfterPurgeNext]_vars

\* C34: once purgeUserData(u) has returned, no key holding u's data exists
\* in storage until u issues a new request: neither u's status update that
\* was in flight nor another user's click recreates one.
C34_PurgedStaysPurged ==
    \A userId \in pgDone : \A name \in UserKeys(userId) : ~Stores(name)

-----------------------------------------------------------------------------
(* Specification of activities: createActivity, and joinActivity calls      *)
(* that run in two steps, the read of the activity and the write of the     *)
(* activity with the new participant, and interleave between the two.       *)

MaxActivityCalls == 4

ActivityIds == {"act_1", "act_2"}

ActivityUsers == {"u1", "u2", "u3"}

\* activityData.max_participants || 0
ParticipantLimits == {0, 2}

JoinCallers == {"j1", "j2"}

\* a joinActivity call that has not started, or has returned
IdleJoin ==
    [pc |-> "idle", activityId |-> "", userId |-> "", activity |-> Null,
     result |-> "none", now |-> 0]

Includes(seq, x) == \E i \in DOMAIN seq : seq[i] = x

ActivityInit ==
    /\ clock = 0
    /\ RelIdle
    /\ PsIdle
    /\ VrIdle
    /\ UpIdle
    /\ pgStore = Pending /\ pgPrev = Pending /\ pgLast = Pending
    /\ cpLast = Pending /\ cpEffects = Pending
    /\ PrIdle /\ AfIdle /\ IxIdle /\ TpIdle
    /\ acStore = [a \in ActivityIds |-> Null]
    /\ acReq = [w \in JoinCallers |-> IdleJoin]
    /\ acJoined = {}

ActivityFrame ==
    UNCHANGED <<relVars, psVars, vrVars, upVars, pgStore, pgPrev, pgLast, cpLast,
                cpEffects, prVars, afVars, ixVars, tpVars>>

\* the id createActivity generates: one that is not in use
FreshActivityId == IF acStore["act_1"] = Null THEN "act_1" ELSE "act_2"

\* createActivity: a new id, the creator as the only participant
createActivity(activityId, userId, maxParticipants, kvFails) ==
    /\ clock < MaxActivityCalls
    /\ acStore[activityId] = Null
    /\ clock' = clock + 1
    /\ acStore' =
          IF kvFails THEN acStore
          ELSE [acStore EXCEPT ![activityId] =
                    [id |-> activityId, creator |-> userId,
                     max_participants |-> maxParticipants,
                     participants |-> <<userId>>,
                     updated_at |-> clock']]
    /\ UNCHANGED <<acReq, acJoined>>
    /\ ActivityFrame

\* joinActivity from its entry to the await of kvStore.put, or to its return
\* when it returns or throws before
JoinRead(w, activityId, userId, kvFails) ==
    /\ acReq[w].pc = "idle"
    /\ clock < MaxActivityCalls
    /\ clock' = clock + 1
    /\ LET activity == IF kvFails THEN Null ELSE acStore[activityId]
           call == [IdleJoin EXCEPT !.activityId = activityId, !.userId = userId,
                                    !.now = clock']
       IN
       IF activity = Null
       THEN /\ acReq' = [acReq EXCEPT ![w] = [call EXCEPT !.result = "not found"]]
            /\ UNCHANGED acJoined
       ELSE IF /\ activity.max_participants > 0
               /\ Len(activity.participants) >= activity.max_participants
       THEN /\ acReq' = [acReq EXCEPT ![w] = [call EXCEPT !.result = "full"]]
            /\ UNCHANGED acJoined
       ELSE IF Includes(activity.participants, userId)
       THEN /\ acReq' = [acReq EXCEPT ![w] = [call EXCEPT !.result = "returned",
                                                          !.activity = activity]]
            /\ acJoined' = acJoined \cup {<<activityId, userId>>}
       ELSE /\ acReq' = [acReq EXCEPT ![w] =
                           [call EXCEPT
                              !.pc = "read",
                              !.activity =
                                  [activity EXCEPT
                                     !.participants = Append(@, userId),
                                     !.updated_at = clock']]]
            /\ UNCHANGED acJoined
    /\ UNCHANGED acStore
    /\ ActivityFrame

\* joinActivity: the put of the activity and the return
JoinWrite(w, kvFails) ==
    /\ acReq[w].pc = "read"
    /\ IF kvFails
       THEN /\ acReq' = [acReq EXCEPT ![w].pc = "idle", ![w].result = "put failed",
                                      ![w].activity = Null]
            /\ UNCHANGED <<acStore, acJoined>>
       ELSE /\ acStore' = [acStore EXCEPT ![acReq[w].activityId] = acReq[w].activity]
            /\ acReq' = [acReq EXCEPT ![w].pc = "idle", ![w].result = "returned"]
            /\ acJoined' = acJoined \cup {<<acReq[w].activityId, acReq[w].userId>>}
    /\ UNCHANGED clock
    /\ ActivityFrame

ActivityNext ==
    \/ \E userId \in ActivityUsers, maxParticipants \in ParticipantLimits,
          kvFails \in BOOLEAN :
             createActivity(FreshActivityId, userId, maxParticipants, kvFails)
    \/ \E w \in JoinCallers :
          \/ \E activityId \in ActivityIds, userId \in ActivityUsers,
                kvFails \in BOOLEAN :
                   JoinRead(w, activityId, userId, kvFails)
          \/ \E kvFails \in BOOLEAN : JoinWrite(w, kvFails)

SpecActivity == ActivityInit /\ [][ActivityNext]_vars

\* C35: a join is durable: once joinActivity(a, u) has returned the activity
\* with u among its participants, u is in the stored participants of a in
\* every later state, other users joining concurrently included.
C35_JoinDurable ==
    \A pair \in acJoined :
        /\ acStore[pair[1]] # Null
        /\ Includes(acStore[pair[1]].participants, pair[2])

NoDuplicates(seq) == \A i, j \in DOMAIN seq : seq[i] = seq[j] => i = j

\* worker w enters joinActivity(activityId, userId) in this step
JoinStarts(w, activityId, userId) ==
    /\ acReq[w].pc = "idle"
    /\ clock' # clock
    /\ acReq'[w].now = clock'
    /\ acReq'[w].activityId = activityId
    /\ acReq'[w].userId = userId

\* C36: under any interleaving of createActivity and joinActivity calls each
\* stored activity's participants contain its creator, contain no user
\* twice and, when max_participants > 0, number at most max_participants;
\* and a join of an activity the user is already in, whose read of the
\* activity succeeds, writes nothing and returns the unchanged activity.
C36_ParticipantsWellFormed ==
    /\ [](\A a \in ActivityIds :
             acStore[a] # Null =>
                /\ Includes(acStore[a].participants, acStore[a].creator)
                /\ NoDuplicates(acStore[a].participants)
                /\ acStore[a].max_participants > 0 =>
                      Len(acStore[a].participants) <= acStore[a].max_participants)
    /\ [][\A w \in JoinCallers, a \in ActivityIds, u \in ActivityUsers :
             (/\ JoinStarts(w, a, u)
              /\ acStore[a] # Null
              /\ Includes(acStore[a].participants, u)
              /\ acReq'[w].result # "not found")
             => /\ acStore' = acStore
                /\ acReq'[w].result = "returned"
                /\ acReq'[w].activity = acStore[a]]_vars

-----------------------------------------------------------------------------
(* Specification of the answer to a component interaction: the response     *)
(* handleDiscordInteractions returns, and for the deferred actions the      *)
(* handler that runs under ctx.waitUntil afterwards.                        *)

\* interaction.data.values[0] of a select menu, "" when there is none
SelectedValues == {"im_in", ""}

\* what fails while the handler runs: nothing, joinActivity, the first
\* Discord call of the handler, or every Discord call
DeferredFaults == {"none", "join", "send", "sendBoth"}

DeferredActions == {"react", "join_activity"}

\* the handler run under waitUntil: the payload it returns ("" when it
\* returns nothing), the Discord calls that went through, and whether a
\* Discord call failed
DeferredOutcome(action, params, selected, fault, now) ==
    IF isComponentExpired(params, now)
    THEN [returned |-> "This interaction has expired.", sent |-> <<>>,
          failed |-> FALSE]
    ELSE IF action = "react"
    THEN IF selected = ""
         THEN [returned |-> "Error processing reaction.", sent |-> <<>>,
               failed |-> FALSE]
         ELSE IF fault = "send"
         THEN [returned |-> "", sent |-> <<"followup">>, failed |-> TRUE]
         ELSE IF fault = "sendBoth"
         THEN [returned |-> "", sent |-> <<>>, failed |-> TRUE]
         ELSE [returned |-> "", sent |-> <<"edit">>, failed |-> FALSE]
    ELSE IF Len(params) < 3
    THEN [returned |-> "No activity ID associated with this button.",
          sent |-> <<>>, failed |-> FALSE]
    ELSE IF fault = "sendBoth"
    THEN [returned |-> "", sent |-> <<>>, failed |-> TRUE]
    ELSE [returned |-> "", sent |-> <<"followup">>, failed |-> fault = "send"]

DeferredInit ==
    /\ clock \in {25, 30}
    /\ RelIdle
    /\ PsIdle
    /\ VrIdle
    /\ UpIdle
    /\ pgStore = Pending /\ pgPrev = Pending /\ pgLast = Pending
    /\ cpLast = Pending /\ cpEffects = Pending
    /\ PrIdle /\ AfIdle /\ AcIdle /\ TpIdle
    /\ ixState = Null

DeferredFrame ==
    UNCHANGED <<clock, relVars, psVars, vrVars, upVars, pgStore, pgPrev, pgLast,
                cpLast, cpEffects, prVars, afVars, acVars, tpVars>>

\* handleDiscordInteractions on a MESSAGE_COMPONENT interaction: the
\* deferred acknowledgement for react and join_activity, the handler's
\* payload as the response for the others
Acknowledge(action, params, selected, fault) ==
    /\ IF ixState = Null THEN TRUE ELSE ixState.pc = "done"
    /\ ixState' =
          [action |-> action, params |-> params, selected |-> selected,
           response |-> IF action \in DeferredActions THEN "deferred" ELSE "message",
           pc |-> IF action \in DeferredActions THEN "background" ELSE "done",
           returned |->
               IF action \in DeferredActions THEN ""
               ELSE IF HandlerOf(action) = "none" THEN "Unknown component action"
               ELSE withExpirationCheck(action, params, NoEffects, fault, clock).reply,
           sent |-> <<>>, failed |-> FALSE]
    /\ DeferredFrame

\* the promise handed to ctx.waitUntil settles; what the handler returns is
\* not used
Background(fault) ==
    /\ ixState # Null
    /\ ixState.pc = "background"
    /\ LET r == DeferredOutcome(ixState.action, ixState.params, ixState.selected,
                                fault, clock)
       IN  ixState' = [ixState EXCEPT !.pc = "done", !.returned = r.returned,
                                      !.sent = r.sent, !.failed = r.failed]
    /\ DeferredFrame

DeferredNext ==
    \/ \E action \in ComponentActions, params \in ParamLists(clock),
          selected \in SelectedValues, fault \in HandlerFaults :
             Acknowledge(action, params, selected, fault)
    \/ \E fault \in DeferredFaults : Background(fault)

SpecDeferred == DeferredInit /\ [][DeferredNext]_vars

\* C37: every component interaction acknowledged with a deferred response is
\* followed by exactly one user-visible completion, an edit of the original
\* response or a follow-up message: when its handler has finished and no
\* Discord call failed, one has been sent, also for an interaction that is
\* expired or has parameters missing.
C37_DeferredCompleted ==
    (/\ ixState # Null
     /\ ixState.response = "deferred"
     /\ ixState.pc = "done"
     /\ ~ixState.failed)
    => Len(ixState.sent) = 1

-----------------------------------------------------------------------------
(* Specification of the pipeline over a store whose latest entry is a       *)
(* successfully analyzed snapshot: the updates that follow may have their   *)
(* completion fail.                                                         *)

FallbackInit ==
    /\ clock = HistoryStart
    /\ ExIdle
    /\ RelIdle
    /\ PsIdle
    /\ VrIdle
    /\ cfg \in [historyLimit : {0, Len(EarlierEntries)}, service : Services,
                channelId : {"status-channel"},
                relevanceThreshold : {[num |-> TRUE, v |-> DefaultThreshold]}]
    /\ kvHistory = [history |-> EarlierEntries]
    /\ kvLatest = EarlierEntries[Len(EarlierEntries)]
    /\ kvProfile = Null
    /\ kvActivities = <<>>
    /\ channel = <<>>
    /\ req = [w \in {"w1"} |-> IdleWorker]
    /\ audit = [started |-> 0, returned |-> <<>>, overlap |-> FALSE,
                failed |-> FALSE, evicted |-> FALSE]

SpecFallback == FallbackInit /\ [][UpdateNext]_vars

\* C38: an update whose completion failed stores its fallback snapshot: the
\* put of the history key appends an entry holding it, the put of the latest
\* key makes that entry the latest one; and the next update that reads the
\* latest entry takes the fallback entry, with its metrics, highlights and
\* personal_states, as its prior context, not the entry of the last
\* successful analysis.
C38_FallbackIsPriorContext ==
    [][\A w \in Workers :
          /\ (/\ req[w].llmFailed
              /\ req[w].pc = "read"
              /\ req'[w].pc = "historyStored") =>
                 /\ IsFallback(req[w].newStatusData)
                 /\ Stored'[Len(Stored')].processed_status = req[w].newStatusData
                 /\ Stored'[Len(Stored')].raw_input = req[w].statusText.value
          /\ (/\ req[w].llmFailed
              /\ req[w].pc = "historyStored"
              /\ req'[w].storedStatusEntry # Null) =>
                 /\ kvLatest' = Stored[Len(Stored)]
                 /\ IsFallback(kvLatest'.processed_status)
          /\ (/\ req[w].pc = "idle"
              /\ req'[w].pc = "fetched"
              /\ req'[w].previousStatus # Null
              /\ audit.returned # <<>>
              /\ IsFallback(audit.returned[Len(audit.returned)].processed_status)) =>
                 /\ req'[w].previousStatus = audit.returned[Len(audit.returned)]
                 /\ \A field \in {"metrics", "highlights", "personal_states"} :
                       req'[w].previousStatus.processed_status[field]
                          = kvLatest.processed_status[field]
                 /\ req'[w].previousStatus # EarlierEntries[Len(EarlierEntries)]]_vars

\* the second update has read the fallback entry of the first as its prior
\* context; the analyzed entry is still the one before it in the history
C38_Witness ==
    \E w \in Workers :
        /\ req[w].pc = "fetched"
        /\ req[w].previousStatus # Null
        /\ IsFallback(req[w].previousStatus.processed_status)
        /\ audit.started = 2
        /\ Len(audit.returned) = 1
        /\ Len(Stored) = 3
        /\ Stored[2] = EarlierEntries[Len(EarlierEntries)]
        /\ ~IsFallback(Stored[2].processed_status)
        /\ kvLatest = Stored[3]
        /\ req[w].previousStatus = Stored[3]

-----------------------------------------------------------------------------
(* Specification of the templates of one user: saveStatusTemplate and       *)
(* deleteStatusTemplate calls that may overlap between their get and their  *)
(* put of the templates key.                                                *)

MaxTemplateCalls == 3

TemplateNames == {"Work", "work", "gym"}

TemplateTexts == {"heads down", "at the gym"}

TemplateCallers == {"t1", "t2"}

\* the array read from the templates key
TemplatesOf(data) ==
    IF data # Null /\ Has(data, "templates") THEN data.templates ELSE <<>>

\* templates.findIndex(t => t.name.toLowerCase() === lowerCaseName), 0 for -1
findIndex(templates, templateName) ==
    LET found == {i \in DOMAIN templates :
                     toLowerCase(templates[i].name) = toLowerCase(templateName)}
    IN  IF found = {} THEN 0 ELSE MinOf(found)

\* mutant of Upserted: the existing template is looked up by its exact name
UpsertedExactName(templates, templateName, templateText, now) ==
    LET found == {i \in DOMAIN templates : templates[i].name = templateName}
        existingIndex == IF found = {} THEN 0 ELSE MinOf(found)
        template == [name |-> templateName, emoji |-> "memo", category |-> Null,
                     template_text |-> templateText,
                     updated_at |-> [kind |-> "iso", t |-> now]]
    IN  IF existingIndex > 0
        THEN [templates EXCEPT ![existingIndex] =
                 Put(template, "created_at",
                     IF Has(templates[existingIndex], "created_at")
                     THEN templates[existingIndex].created_at
                     ELSE template.updated_at)]
        ELSE Append(templates, Put(template, "created_at", template.updated_at))

\* saveStatusTemplate: the list it puts, from the list it read
Upserted(templates, templateName, templateText, now) ==
    LET existingIndex == findIndex(templates, templateName)
        template == [name |-> templateName, emoji |-> "memo", category |-> Null,
                     template_text |-> templateText,
                     updated_at |-> [kind |-> "iso", t |-> now]]
    IN  IF existingIndex > 0
        THEN [templates EXCEPT ![existingIndex] =
                 Put(template, "created_at",
                     IF Has(templates[existingIndex], "created_at")
                     THEN templates[existingIndex].created_at
                     ELSE template.updated_at)]
        ELSE Append(templates, Put(template, "created_at", template.updated_at))

\* templates.filter(t => t.name.toLowerCase() !== lowerCaseName)
Filtered(templates, templateName) ==
    SelectSeq(templates,
              LAMBDA t : toLowerCase(t.name) # toLowerCase(templateName))

\* a caller between calls, with what its last call returned
IdleTemplateCall ==
    [pc |-> "idle", op |-> "none", name |-> "", read |-> <<>>, readOk |-> FALSE,
     templates |-> <<>>, result |-> FALSE, wrote |-> FALSE]

TemplateInit ==
    /\ clock = 0
    /\ RelIdle
    /\ PsIdle
    /\ VrIdle
    /\ UpIdle
    /\ pgStore = Pending /\ pgPrev = Pending /\ pgLast = Pending
    /\ cpLast = Pending /\ cpEffects = Pending
    /\ PrIdle /\ AfIdle /\ AcIdle /\ IxIdle
    /\ tplStore = Null
    /\ tplLast = [w \in TemplateCallers |-> IdleTemplateCall]

TemplateFrame ==
    UNCHANGED <<relVars, psVars, vrVars, upVars, pgStore, pgPrev, pgLast,
                cpLast, cpEffects, prVars, afVars, acVars, ixVars>>

\* saveStatusTemplate up to its put of the templates key
saveStatusTemplate(w, templateName, templateText, getFails) ==
    /\ tplLast[w].pc = "idle"
    /\ clock < MaxTemplateCalls
    /\ clock' = clock + 1
    /\ tplLast' = [tplLast EXCEPT ![w] =
          IF getFails
          THEN [IdleTemplateCall EXCEPT !.op = "save", !.name = templateName]
          ELSE [IdleTemplateCall EXCEPT
                  !.pc = "put", !.op = "save", !.name = templateName,
                  !.read = TemplatesOf(tplStore), !.readOk = TRUE,
                  !.templates = Upserted(TemplatesOf(tplStore), templateName,
                                         templateText, clock')]]
    /\ UNCHANGED tplStore
    /\ TemplateFrame

\* deleteStatusTemplate up to its put, or to its return when nothing was
\* filtered out
deleteStatusTemplate(w, templateName, getFails) ==
    /\ tplLast[w].pc = "idle"
    /\ clock < MaxTemplateCalls
    /\ clock' = clock + 1
    /\ LET templates == Filtered(TemplatesOf(tplStore), templateName) IN
       tplLast' = [tplLast EXCEPT ![w] =
          IF getFails
          THEN [IdleTemplateCall EXCEPT !.op = "delete", !.name = templateName]
          ELSE IF Len(templates) < Len(TemplatesOf(tplStore))
          THEN [IdleTemplateCall EXCEPT
                  !.pc = "put", !.op = "delete", !.name = templateName,
                  !.read = TemplatesOf(tplStore), !.readOk = TRUE,
                  !.templates = templates]
          ELSE [IdleTemplateCall EXCEPT
                  !.op = "delete", !.name = templateName,
                  !.read = TemplatesOf(tplStore), !.readOk = TRUE,
                  !.templates = templates, !.result = TRUE]]
    /\ UNCHANGED tplStore
    /\ TemplateFrame

\* kvStore.put(key, JSON.stringify({ templates })) and the return
TemplatePut(w, putFails) ==
    /\ tplLast[w].pc = "put"
    /\ IF putFails
       THEN /\ tplLast' = [tplLast EXCEPT ![w].pc = "idle"]
            /\ UNCHANGED tplStore
       ELSE /\ tplLast' = [tplLast EXCEPT ![w].pc = "idle", ![w].result = TRUE,
                                          ![w].wrote = TRUE]
            /\ tplStore' = [templates |-> tplLast[w].templates]
    /\ UNCHANGED clock
    /\ TemplateFrame

TemplateNext ==
    \E w \in TemplateCallers :
        \/ \E templateName \in TemplateNames, templateText \in TemplateTexts,
              getFails \in BOOLEAN :
               saveStatusTemplate(w, templateName, templateText, getFails)
        \/ \E templateName \in TemplateNames, getFails \in BOOLEAN :
               deleteStatusTemplate(w, templateName, getFails)
        \/ \E putFails \in BOOLEAN : TemplatePut(w, putFails)

SpecTemplates == TemplateInit /\ [][TemplateNext]_vars

SameNameIgnoringCase(a, b) == toLowerCase(a) = toLowerCase(b)

NamedIn(templates, templateName) ==
    {i \in DOMAIN templates : SameNameIgnoringCase(templates[i].name, templateName)}

\* C39: after any sequence of saveStatusTemplate and deleteStatusTemplate
\* calls no two stored templates have names that are equal ignoring case; a
\* save under a name that is stored (ignoring case) replaces that template
\* where it stands, keeps its created_at and leaves the others as they were
\* read; a delete of a name that is not stored returns true and performs no
\* write.
C39_TemplateNamesUnique ==
    /\ [](\A i, j \in DOMAIN TemplatesOf(tplStore) :
             SameNameIgnoringCase(TemplatesOf(tplStore)[i].name,
                                  TemplatesOf(tplStore)[j].name) => i = j)
    /\ [][\A w \in TemplateCallers :
            /\ (/\ tplLast[w].pc = "put"
                /\ tplLast[w].op = "save"
                /\ NamedIn(tplLast[w].read, tplLast[w].name) # {}
                /\ tplLast'[w].wrote) =>
                   LET read == tplLast[w].read
                       stored == TemplatesOf(tplStore')
                   IN  /\ tplLast'[w].result
                       /\ Len(stored) = Len(read)
                       /\ \A i \in DOMAIN read :
                             IF i \in NamedIn(read, tplLast[w].name)
                             THEN /\ stored[i].name = tplLast[w].name
                                  /\ stored[i].created_at = read[i].created_at
                                  /\ stored[i].updated_at.t > read[i].updated_at.t
                             ELSE stored[i] = read[i]
            /\ (/\ tplLast[w].pc = "idle"
                /\ clock' = clock + 1
                /\ tplLast'[w] # tplLast[w]
                /\ tplLast'[w].op = "delete"
                /\ tplLast'[w].readOk
                /\ NamedIn(tplLast'[w].read, tplLast'[w].name) = {}) =>
                   /\ tplLast'[w].pc = "idle"
                   /\ tplLast'[w].result
                   /\ ~tplLast'[w].wrote
                   /\ tplStore' = tplStore]_vars

\* a template saved as "Work" was replaced under "work" and kept its
\* created_at, and a delete of a name that was not stored has returned true
\* without a write
C39_Witness ==
    /\ Len(TemplatesOf(tplStore)) = 1
    /\ TemplatesOf(tplStore)[1].name = "work"
    /\ TemplatesOf(tplStore)[1].created_at.t = 1
    /\ TemplatesOf(tplStore)[1].updated_at.t > 1
    /\ \E w \in TemplateCallers :
          /\ tplLast[w].pc = "idle"
          /\ tplLast[w].op = "delete"
          /\ tplLast[w].readOk
          /\ tplLast[w].read # <<>>
          /\ NamedIn(tplLast[w].read, tplLast[w].name) = {}
          /\ tplLast[w].result
          /\ ~tplLast[w].wrote

====
